---- MODULE Spec2Model ----
(***************************************************************************)
(* Model of the xtask image tooling of kendryte-hal:                       *)
(*   src/xtask/src/generate/image.rs   gen_image and its three schemes     *)
(*   src/xtask/src/convert/elf.rs      elf_to_bin_bytes, elf_to_image_bytes*)
(*   src/xtask/src/main.rs             run, resolve_output_path            *)
(*                                                                         *)
(* Byte strings (Vec<u8>, &[u8]) are sequences of runs.  A run is a record *)
(*   [f, v, n, at, of]                                                     *)
(* f = "fill": n bytes, each of value v (vec![v; n], or one literal byte). *)
(* any other f: bytes at..at+n-1 of the value of the function f applied to *)
(* the byte string `of` with nonce v (a digest, a ciphertext, a signature, *)
(* or a constant of config.rs when `of` is empty).  The digest, cipher and *)
(* signature functions are uninterpreted: two values are equal exactly     *)
(* when function, nonce and argument are equal.  A byte string is kept in  *)
(* normal form (no empty run, no two adjacent runs that continue each      *)
(* other), so two byte strings are equal exactly when their run sequences  *)
(* are equal.                                                              *)
(***************************************************************************)
EXTENDS Integers, Sequences, FiniteSets, TLC

VARIABLES pc, firmware, encryption, elf, result, entropy, prev, cli, host, input_len, gpio, pwm,
          uart

vars == <<pc, firmware, encryption, elf, result, entropy, prev, cli, host, input_len, gpio, pwm,
          uart>>

(***************************************************************************)
(* Byte strings                                                            *)
(***************************************************************************)
Fill(b, n) == [f |-> "fill", v |-> b, n |-> n, at |-> 0, of |-> <<>>]

Sym(name, nonce, n, of) == [f |-> name, v |-> nonce, n |-> n, at |-> 0, of |-> of]

\* c continues l: the two runs are one run cut in two
Continues(l, c) ==
    /\ l.f = c.f
    /\ l.v = c.v
    /\ IF c.f = "fill" THEN TRUE ELSE l.of = c.of /\ l.at + l.n = c.at

\* Vec::push of a run, keeping the normal form
Push(s, c) ==
    IF c.n = 0 THEN s
    ELSE IF Len(s) > 0 /\ Continues(s[Len(s)], c)
         THEN [s EXCEPT ![Len(s)].n = @ + c.n]
         ELSE Append(s, c)

RECURSIVE Cat(_, _)
\* Vec::extend / extend_from_slice
Cat(s, t) == IF t = <<>> THEN s ELSE Cat(Push(s, Head(t)), Tail(t))

RECURSIVE ByteLen(_)
\* Vec::len / slice::len
ByteLen(s) == IF s = <<>> THEN 0 ELSE Head(s).n + ByteLen(Tail(s))

RECURSIVE FromBytes(_)
\* a literal byte array
FromBytes(q) == IF q = <<>> THEN <<>> ELSE Cat(<<Fill(Head(q), 1)>>, FromBytes(Tail(q)))

Zeros(n) == Push(<<>>, Fill(0, n))

Min(a, b) == IF a < b THEN a ELSE b
Max(a, b) == IF a > b THEN a ELSE b

RECURSIVE Slice(_, _, _)
\* &s[a..b], for 0 <= a <= b <= ByteLen(s)
Slice(s, a, b) ==
    IF s = <<>> \/ b <= 0 THEN <<>>
    ELSE LET c == Head(s)
             lo == Max(a, 0)
             hi == Min(b, c.n)
             rest == Slice(Tail(s), a - c.n, b - c.n)
         IN IF lo < hi
            THEN Cat(<<[c EXCEPT !.n = hi - lo,
                                 !.at = IF c.f = "fill" THEN 0 ELSE c.at + lo]>>, rest)
            ELSE rest

\* every byte of s is the literal byte 0
AllZero(s) == \A i \in 1..Len(s) : s[i].f = "fill" /\ s[i].v = 0

(***************************************************************************)
(* XtaskResult<T> (src/xtask/src/error.rs); a panic is a third outcome     *)
(***************************************************************************)
Ok(v) == [kind |-> "Ok", val |-> v, err |-> "none"]

Err(e) == [kind |-> "Err", val |-> <<>>, err |-> e]

Panic(msg) == [kind |-> "Panic", val |-> <<>>, err |-> msg]

(***************************************************************************)
(* Constants of generate/config.rs, as far as the sources fix them         *)
(***************************************************************************)
\* vec![0; 0x100000]
PREFIX_LEN == 1048576

\* MAGIC.len() and VERSION.len(): gen_firmware of the 113340-byte test
\* firmware has 113872 bytes with scheme None and 113888 with Sm4, which
\* with 32-byte SM2 coordinates leaves 4 bytes for each
MAGIC_LEN == 4

VERSION_LEN == 4

MAGIC == Push(<<>>, Sym("MAGIC", 0, MAGIC_LEN, <<>>))

VERSION == Push(<<>>, Sym("VERSION", 0, VERSION_LEN, <<>>))

\* ID.len(): the identity string of the SM2 signer
ID_STR_LEN == 16

ID == Push(<<>>, Sym("ID", 0, ID_STR_LEN, <<>>))

ID_LEN == Push(<<>>, Sym("ID_LEN", 0, 2, <<>>))

PUBLIC_KEY_X == <<Sym("PUBLIC_KEY_X", 0, 32, <<>>)>>

PUBLIC_KEY_Y == <<Sym("PUBLIC_KEY_Y", 0, 32, <<>>)>>

\* the fixed SM2 nonce K and the fixed AES-GCM nonce INITIAL_AES_IV
K == 0

INITIAL_AES_IV == 0

(***************************************************************************)
(* EncryptionType and its discriminants                                    *)
(***************************************************************************)
EncryptionType == {"None", "Sm4", "Aes"}

Discriminant(e) == CASE e = "None" -> 0 [] e = "Sm4" -> 1 [] e = "Aes" -> 2

(***************************************************************************)
(* Integer conversions                                                     *)
(***************************************************************************)
I32_MAX == 2147483647

\* usize as i32: the low 32 bits, read as a signed integer
AsI32(n) == IF n > I32_MAX THEN (n - I32_MAX - 1) + (-I32_MAX - 1) ELSE n

\* i32::to_le_bytes (two's complement; \div rounds down and % is non-negative)
ToLeBytes(x) ==
    FromBytes(<<x % 256, (x \div 256) % 256, (x \div 65536) % 256, (x \div 16777216) % 256>>)

(***************************************************************************)
(* Primitives of the crypto crates, uninterpreted                          *)
(***************************************************************************)
\* Sha256::new().update(d).finalize()
Sha256(d) == <<Sym("sha256", 0, 32, d)>>

\* Sm3::new().update(d).finalize()
Sm3(d) == <<Sym("sm3", 0, 32, d)>>

\* cbc::Encryptor<Sm4>::encrypt_padded_vec_mut::<Pkcs7>: PKCS#7 always pads
Sm4CbcPkcs7(pt) == <<Sym("sm4_cbc", 0, 16 * ((ByteLen(pt) \div 16) + 1), pt)>>

\* SigningKey::sign_prehash_with_k(k, e): r and s are 32 bytes each
Sm2R(k, e) == <<Sym("sm2_r", k, 32, e)>>

Sm2S(k, e) == <<Sym("sm2_s", k, 32, e)>>

\* Aes256Gcm::encrypt_in_place_detached(nonce, aad, buf): the ciphertext has
\* the length of the plaintext, the tag 16 bytes
AesGcmCiphertext(nonce, pt) == Push(<<>>, Sym("aes_gcm_ct", nonce, ByteLen(pt), pt))

AesGcmTag(nonce, pt) == <<Sym("aes_gcm_tag", nonce, 16, pt)>>

\* SigningKey::<Sha256>::sign: RSA-2048 PKCS#1 v1.5
RsaSign(m) == <<Sym("rsa_sig", 0, 256, m)>>

(***************************************************************************)
(* src/xtask/src/generate/image.rs                                         *)
(***************************************************************************)
\* str::to_lowercase on one character: the upper-case letters map to their
\* lower-case forms, every other character to itself
ToLower(c) ==
    CASE c = "N" -> "n" [] c = "O" -> "o" [] c = "E" -> "e" [] c = "S" -> "s"
      [] c = "M" -> "m" [] c = "A" -> "a" [] OTHER -> c

\* str::to_lowercase
to_lowercase(s) == [i \in 1..Len(s) |-> ToLower(s[i])]

\* EncryptionType::from_str matching the text as given
from_str_case_sensitive(s) ==
    CASE s = <<"n", "o", "n", "e">> -> Ok("None")
      [] s = <<"s", "m", "4">> -> Ok("Sm4")
      [] s = <<"a", "e", "s">> -> Ok("Aes")
      [] OTHER -> Err("InvalidEncryptionType")

\* EncryptionType::from_str
from_str(s) ==
    LET lower == to_lowercase(s)
    IN CASE lower = <<"n", "o", "n", "e">> -> Ok("None")
         [] lower = <<"s", "m", "4">> -> Ok("Sm4")
         [] lower = <<"a", "e", "s">> -> Ok("Aes")
         [] OTHER -> Err("InvalidEncryptionType")

\* prepare_firmware_with_version
prepare_firmware_with_version(fw) == Cat(Cat(<<>>, VERSION), fw)

\* add_header_info with the two fields in the other order
add_header_info_swapped(image, len, enc) ==
    Cat(Cat(image, ToLeBytes(Discriminant(enc))), ToLeBytes(len))

\* add_header_info
add_header_info(image, len, enc) ==
    Cat(Cat(image, ToLeBytes(len)), ToLeBytes(Discriminant(enc)))

\* handle_none_encryption hashing the raw firmware, without the version
handle_none_encryption_hash_raw(image, fw) ==
    LET firmware_with_version == prepare_firmware_with_version(fw)
        image1 == add_header_info(image, AsI32(ByteLen(firmware_with_version)), "None")
        image2 == Cat(image1, Sha256(fw))
        image3 == Cat(image2, Zeros(516 - 32))
    IN Ok(Cat(image3, firmware_with_version))

\* handle_none_encryption padding the digest with 516 zero bytes
handle_none_encryption_pad_516(image, fw) ==
    LET firmware_with_version == prepare_firmware_with_version(fw)
        image1 == add_header_info(image, AsI32(ByteLen(firmware_with_version)), "None")
        image2 == Cat(image1, Sha256(firmware_with_version))
        image3 == Cat(image2, Zeros(516))
    IN Ok(Cat(image3, firmware_with_version))

\* handle_none_encryption
handle_none_encryption(image, fw) ==
    LET firmware_with_version == prepare_firmware_with_version(fw)
        image1 == add_header_info(image, AsI32(ByteLen(firmware_with_version)), "None")
        hash == Sha256(firmware_with_version)
        image2 == Cat(image1, hash)
        image3 == Cat(image2, Zeros(516 - 32))
    IN Ok(Cat(image3, firmware_with_version))

\* encrypt_sm4 adding no padding block to a block-aligned plaintext
encrypt_sm4_pad_if_unaligned(firmware_with_version) ==
    <<Sym("sm4_cbc", 0, 16 * ((ByteLen(firmware_with_version) + 15) \div 16),
          firmware_with_version)>>

\* encrypt_sm4
encrypt_sm4(firmware_with_version) == Sm4CbcPkcs7(firmware_with_version)

\* prepare_sm2_signature signing with a fresh random nonce
prepare_sm2_signature_random_k(ciphertext) ==
    LET z == Cat(Cat(Cat(Cat(Cat(<<>>, ID_LEN), ID),
                 <<Sym("SM2_CURVE_A_B_GX_GY", 0, 128, <<>>)>>), PUBLIC_KEY_X), PUBLIC_KEY_Y)
        e == Sm3(Cat(Cat(<<>>, Sm3(z)), ciphertext))
        r == Sm2R(entropy, e)
        sig == Sm2S(entropy, e)
    IN Ok([signature |-> Cat(Cat(<<>>, r), sig), r |-> r, s |-> sig])

\* prepare_sm2_signature: (signature, r, s), signed with the fixed nonce K
prepare_sm2_signature(ciphertext) ==
    LET z == Cat(Cat(Cat(Cat(Cat(<<>>, ID_LEN), ID),
                 <<Sym("SM2_CURVE_A_B_GX_GY", 0, 128, <<>>)>>), PUBLIC_KEY_X), PUBLIC_KEY_Y)
        z_a == Sm3(z)
        m == Cat(Cat(<<>>, z_a), ciphertext)
        e == Sm3(m)
        r == Sm2R(K, e)
        sig == Sm2S(K, e)
    IN Ok([signature |-> Cat(Cat(<<>>, r), sig), r |-> r, s |-> sig])

\* prepare_id_info padding with 512 - 32 * 4 zero bytes whatever the length of ID
prepare_id_info_unadjusted ==
    LET id_len_bytes == ToLeBytes(AsI32(ByteLen(ID)))
    IN Cat(Cat(Cat(<<>>, id_len_bytes), ID), Zeros(512 - (32 * 4)))

\* prepare_id_info
prepare_id_info ==
    LET id_len_bytes == ToLeBytes(AsI32(ByteLen(ID)))
    IN Cat(Cat(Cat(<<>>, id_len_bytes), ID), Zeros((512 - (32 * 4)) - ByteLen(ID)))

\* add_sm2_info
add_sm2_info(image, r, sig) ==
    Cat(Cat(Cat(Cat(Cat(image, prepare_id_info), PUBLIC_KEY_X), PUBLIC_KEY_Y), r), sig)

\* handle_sm4_encryption
handle_sm4_encryption(image, fw) ==
    LET firmware_with_version == prepare_firmware_with_version(fw)
        ciphertext == encrypt_sm4(firmware_with_version)
        image1 == add_header_info(image, AsI32(ByteLen(ciphertext)), "Sm4")
        signed == prepare_sm2_signature(ciphertext)
    IN IF signed.kind # "Ok" THEN signed
       ELSE Ok(Cat(add_sm2_info(image1, signed.val.r, signed.val.s), ciphertext))

\* encrypt_aes: (ciphertext with the tag appended, tag)
encrypt_aes(firmware_with_version) ==
    LET tag == AesGcmTag(INITIAL_AES_IV, firmware_with_version)
        ciphertext == Cat(AesGcmCiphertext(INITIAL_AES_IV, firmware_with_version), tag)
    IN Ok([ciphertext |-> ciphertext, tag |-> tag])

\* prepare_rsa_signature: (signature, n big-endian, e little-endian)
prepare_rsa_signature(tag) ==
    Ok([signature |-> RsaSign(tag),
        n |-> <<Sym("RSA_N", 0, 256, <<>>)>>,
        e |-> <<Sym("RSA_E", 0, 4, <<>>)>>])

\* handle_aes_encryption storing the length of the ciphertext without its tag
handle_aes_encryption_len_without_tag(image, fw) ==
    LET firmware_with_version == prepare_firmware_with_version(fw)
        enc == encrypt_aes(firmware_with_version)
        image1 == add_header_info(image, AsI32(ByteLen(firmware_with_version)), "Aes")
        rsa == prepare_rsa_signature(enc.val.tag)
    IN Ok(Cat(Cat(Cat(Cat(image1, rsa.val.n), rsa.val.e), rsa.val.signature),
              enc.val.ciphertext))

\* handle_aes_encryption signing the ciphertext instead of the tag
handle_aes_encryption_sign_ciphertext(image, fw) ==
    LET firmware_with_version == prepare_firmware_with_version(fw)
        enc == encrypt_aes(firmware_with_version)
        image1 == add_header_info(image, AsI32(ByteLen(enc.val.ciphertext)), "Aes")
        rsa == prepare_rsa_signature(enc.val.ciphertext)
    IN Ok(Cat(Cat(Cat(Cat(image1, rsa.val.n), rsa.val.e), rsa.val.signature),
              enc.val.ciphertext))

\* handle_aes_encryption
handle_aes_encryption(image, fw) ==
    LET firmware_with_version == prepare_firmware_with_version(fw)
        enc == encrypt_aes(firmware_with_version)
    IN IF enc.kind # "Ok" THEN enc
       ELSE LET image1 == add_header_info(image, AsI32(ByteLen(enc.val.ciphertext)), "Aes")
                rsa == prepare_rsa_signature(enc.val.tag)
            IN IF rsa.kind # "Ok" THEN rsa
               ELSE Ok(Cat(Cat(Cat(Cat(image1, rsa.val.n), rsa.val.e), rsa.val.signature),
                           enc.val.ciphertext))

\* the padding step appending len % 512 bytes
pad_to_sector_remainder(image) ==
    IF ByteLen(image) % 512 # 0
    THEN Cat(image, Zeros(ByteLen(image) % 512))
    ELSE image

\* the padding step without its test: a whole sector is added to an aligned image
pad_to_sector_always(image) == Cat(image, Zeros(512 - (ByteLen(image) % 512)))

\* the padding step of gen_image (lines 63-66)
pad_to_sector(image) ==
    IF ByteLen(image) % 512 # 0
    THEN Cat(image, Zeros(512 - (ByteLen(image) % 512)))
    ELSE image

\* gen_image
gen_image(fw, enc) ==
    LET image0 == Cat(Zeros(PREFIX_LEN), MAGIC)
        handled == CASE enc = "None" -> handle_none_encryption(image0, fw)
                     [] enc = "Sm4" -> handle_sm4_encryption(image0, fw)
                     [] enc = "Aes" -> handle_aes_encryption(image0, fw)
    IN IF handled.kind # "Ok" THEN handled ELSE Ok(pad_to_sector(handled.val))

(***************************************************************************)
(* Lengths beyond 2^31 - 1.  A usize is kept as two limbs [hi, lo] of      *)
(* value hi * 2^16 + lo with 0 <= lo < 2^16, so that lengths up to 2^47    *)
(* and their casts are computed exactly.                                   *)
(***************************************************************************)
LIMB == 65536

W(hi, lo) == [hi |-> hi, lo |-> lo]

\* w + k and w - k for 0 <= k < LIMB (w - k is 0 when it would be negative)
WAdd(w, k) == W(w.hi + ((w.lo + k) \div LIMB), (w.lo + k) % LIMB)

WSub(w, k) ==
    IF w.lo >= k THEN W(w.hi, w.lo - k)
    ELSE IF w.hi = 0 THEN W(0, 0) ELSE W(w.hi - 1, (w.lo + LIMB) - k)

WGreater(a, b) == a.hi > b.hi \/ (a.hi = b.hi /\ a.lo > b.lo)

\* usize as i32 clamped at i32::MAX instead of truncated
usize_as_i32_saturating(w) ==
    IF w.hi >= LIMB \div 2 THEN I32_MAX ELSE (w.hi * LIMB) + w.lo

\* usize as i32: the low 32 bits, read as a signed integer
usize_as_i32(w) ==
    LET h == w.hi % LIMB
    IN ((IF h >= LIMB \div 2 THEN h - LIMB ELSE h) * LIMB) + w.lo

\* the longest plaintext Aes256Gcm::encrypt_in_place_detached accepts: 2^36
\* bytes; a longer buffer makes it return Err
P_MAX == W(1048576, 0)

\* gen_image on an input of len bytes, followed through the lengths only: the
\* length of the payload each scheme emits, and the four bytes of the length
\* field, or the error of the step that fails
payload_len(len, enc) ==
    LET firmware_with_version == WAdd(len, VERSION_LEN)
    IN CASE enc = "None" -> firmware_with_version
         [] enc = "Sm4" -> WAdd(firmware_with_version, 16 - (firmware_with_version.lo % 16))
         [] enc = "Aes" -> WAdd(firmware_with_version, 16)

gen_image_header(len, enc) ==
    IF enc = "Aes" /\ WGreater(WAdd(len, VERSION_LEN), P_MAX)
    THEN Err("AesError")
    ELSE Ok([length |-> ToLeBytes(usize_as_i32(payload_len(len, enc))),
             payload |-> payload_len(len, enc)])

(***************************************************************************)
(* src/xtask/src/generate/firmware.rs                                      *)
(*                                                                         *)
(* gen_firmware builds the package without the leading zero area and       *)
(* without the sector padding.  The byte order of the machine the tool is  *)
(* compiled for (cfg target_endian) is an input of the model: to_ne_bytes  *)
(* is to_le_bytes on a little-endian host and to_be_bytes on a big-endian  *)
(* one.                                                                    *)
(***************************************************************************)
ByteOrder == {"little", "big"}

\* i32::to_be_bytes
ToBeBytes(x) ==
    FromBytes(<<(x \div 16777216) % 256, (x \div 65536) % 256, (x \div 256) % 256, x % 256>>)

\* i32::to_ne_bytes on a host of the given byte order
ToNeBytes(x, order) == IF order = "little" THEN ToLeBytes(x) ELSE ToBeBytes(x)

\* gen_firmware, scheme None (lines 64-86)
gen_firmware_none(fw0, data_with_version, order) ==
    LET data_len == AsI32(ByteLen(data_with_version))
        fw1 == Cat(fw0, ToNeBytes(data_len, order))
        fw2 == Cat(fw1, ToLeBytes(Discriminant("None")))
        fw3 == Cat(fw2, Sha256(data_with_version))
        fw4 == Cat(fw3, Zeros(516 - 32))
    IN Ok(Cat(fw4, data_with_version))

\* gen_firmware, scheme Sm4 (lines 87-191)
gen_firmware_sm4(fw0, data_with_version) ==
    LET ciphertext == Sm4CbcPkcs7(data_with_version)
        data_len == AsI32(ByteLen(ciphertext))
        fw1 == Cat(fw0, ToLeBytes(data_len))
        fw2 == Cat(fw1, ToLeBytes(Discriminant("Sm4")))
        z == Cat(Cat(Cat(Cat(Cat(<<>>, ID_LEN), ID),
                 <<Sym("SM2_CURVE_A_B_GX_GY", 0, 128, <<>>)>>), PUBLIC_KEY_X), PUBLIC_KEY_Y)
        z_a == Sm3(z)
        e == Sm3(Cat(Cat(<<>>, z_a), ciphertext))
        r == Sm2R(K, e)
        sig == Sm2S(K, e)
        id_len_bytes == ToLeBytes(AsI32(ByteLen(ID)))
        id_bytes == Cat(Cat(<<>>, ID), Zeros((512 - (32 * 4)) - ByteLen(ID)))
        fw3 == Cat(Cat(fw2, id_len_bytes), id_bytes)
        fw4 == Cat(Cat(Cat(Cat(fw3, PUBLIC_KEY_X), PUBLIC_KEY_Y), r), sig)
    IN Ok(Cat(fw4, ciphertext))

\* gen_firmware, scheme Aes (lines 192-261)
gen_firmware_aes(fw0, data_with_version) ==
    LET tag == AesGcmTag(INITIAL_AES_IV, data_with_version)
        ciphertext == Cat(AesGcmCiphertext(INITIAL_AES_IV, data_with_version), tag)
        data_len == AsI32(ByteLen(ciphertext))
        fw1 == Cat(fw0, ToLeBytes(data_len))
        fw2 == Cat(fw1, ToLeBytes(Discriminant("Aes")))
        n_bytes == <<Sym("RSA_N", 0, 256, <<>>)>>
        e_bytes == <<Sym("RSA_E", 0, 4, <<>>)>>
        signature == RsaSign(tag)
        fw3 == Cat(Cat(Cat(fw2, n_bytes), e_bytes), signature)
    IN Ok(Cat(fw3, ciphertext))

\* gen_firmware, compiled for a host of the given byte order
gen_firmware(data, enc, order) ==
    LET data_with_version == Cat(Cat(<<>>, VERSION), data)
        fw0 == Cat(<<>>, MAGIC)
    IN CASE enc = "None" -> gen_firmware_none(fw0, data_with_version, order)
         [] enc = "Sm4" -> gen_firmware_sm4(fw0, data_with_version)
         [] enc = "Aes" -> gen_firmware_aes(fw0, data_with_version)

(***************************************************************************)
(* src/xtask/src/convert/elf.rs                                            *)
(*                                                                         *)
(* An executable is [valid, sections]: valid says whether                  *)
(* object::File::parse accepts it; sections is the section table, each     *)
(* section [alloc, kind, off, size, addr, range_ok]: the SHF_ALLOC flag,   *)
(* kind(), the file range sh_offset/sh_size, address(), and whether        *)
(* compressed_file_range() returns Ok.  The contents of a section are the  *)
(* bytes of the file at its range.                                         *)
(***************************************************************************)
\* the bytes of the executable file: a 4-byte header, then the bytes that
\* build_test_elf gives .text and .data, then four more
FILE == FromBytes(<<127, 69, 76, 70, 19, 5, 0, 0, 18, 52, 86, 120, 222, 173, 190, 239>>)

\* Section::compressed_file_range(): Err on a malformed compression header; a
\* section without file contents (SHT_NOBITS) has the empty range at 0
compressed_file_range(s) ==
    IF ~s.range_ok THEN Err("read::Error")
    ELSE IF s.kind = "UninitializedData" THEN Ok([offset |-> 0, size |-> 0])
    ELSE Ok([offset |-> s.off, size |-> s.size])

\* Section::data(): the file bytes of the range, none for a section without
\* file contents; Err when the range leaves the file
section_data(s) ==
    IF s.kind = "UninitializedData" THEN Ok(<<>>)
    ELSE IF s.off + s.size <= ByteLen(FILE)
    THEN Ok(Slice(FILE, s.off, s.off + s.size))
    ELSE Err("read::Error")

\* get_section_offset: expect() panics on Err
get_section_offset(s) ==
    LET fr == compressed_file_range(s)
    IN IF fr.kind = "Ok" THEN Ok(fr.val.offset) ELSE Panic("Section file range not found!")

RECURSIVE InsertByKey(_, _)
\* one step of the stable sort over <<key, element>> pairs: x goes after every
\* pair whose key is <= its own
InsertByKey(sorted, x) ==
    IF sorted = <<>> THEN <<x>>
    ELSE IF Head(sorted)[1] <= x[1]
         THEN <<Head(sorted)>> \o InsertByKey(Tail(sorted), x)
         ELSE <<x>> \o sorted

RECURSIVE SortPairs(_)
\* the pairs of q in ascending key order, equal keys in their order in q
SortPairs(q) ==
    IF q = <<>> THEN <<>>
    ELSE InsertByKey(SortPairs(SubSeq(q, 1, Len(q) - 1)), q[Len(q)])

\* slice::sort_by_key, a stable sort: q pairs each element with its key, the
\* elements come back in the sorted order
StableSortByKey(q) ==
    LET sorted == SortPairs(q)
    IN [i \in 1..Len(sorted) |-> sorted[i][2]]

\* Vec::sort_by_key(get_section_offset): a slice of fewer than two elements is
\* returned as it is, otherwise the key of every element is taken
sort_sections_with_offset(sections) ==
    IF Len(sections) < 2 THEN Ok(sections)
    ELSE IF \E i \in 1..Len(sections) : get_section_offset(sections[i]).kind = "Panic"
         THEN Panic("Section file range not found!")
         ELSE Ok(StableSortByKey([i \in 1..Len(sections) |->
                    <<get_section_offset(sections[i]).val, sections[i]>>]))

\* the filter with the test of the kind inverted
is_loadable_inverted(s) == s.alloc /\ s.kind = "UninitializedData"

\* the filter closure of get_loadable_sections
is_loadable(s) == s.alloc /\ s.kind # "UninitializedData"

\* get_loadable_sections
get_loadable_sections(e) ==
    sort_sections_with_offset(SelectSeq(e.sections, is_loadable))

\* usize::try_from(u64) on a 64-bit host: every u64 fits
usize_try_from(n) == Ok(n)

RECURSIVE collect_entries(_)
\* the loop of process_sections that gathers the file-backed entries
collect_entries(sections) ==
    IF sections = <<>> THEN <<>>
    ELSE LET s == Head(sections)
             rest == collect_entries(Tail(sections))
             fr == compressed_file_range(s)
             data == section_data(s)
         IN IF s.kind = "UninitializedData" THEN rest
            ELSE IF fr.kind # "Ok" THEN rest
            ELSE IF data.kind # "Ok" THEN rest
            ELSE <<[file_off |-> fr.val.offset,
                    file_size |-> ByteLen(data.val),
                    data |-> data.val]>> \o rest

\* output[start..start + ByteLen(bytes)].copy_from_slice(bytes)
copy_from_slice(output, start, bytes) ==
    IF start + ByteLen(bytes) > ByteLen(output)
    THEN Panic("range end index out of range")
    ELSE Ok(Cat(Cat(Slice(output, 0, start), bytes),
                Slice(output, start + ByteLen(bytes), ByteLen(output))))

RECURSIVE copy_unless_overlapped(_, _, _, _)
\* the copy loop leaving out an entry that starts before the end of what was copied
copy_unless_overlapped(output, entries, min_off, copied_end) ==
    IF entries = <<>> THEN Ok(output)
    ELSE LET e == Head(entries)
             start == e.file_off - min_off
             copy_len == Min(ByteLen(e.data), e.file_size)
             written == copy_from_slice(output, start, Slice(e.data, 0, copy_len))
         IN IF e.file_off < copied_end
            THEN copy_unless_overlapped(output, Tail(entries), min_off, copied_end)
            ELSE IF written.kind # "Ok" THEN written
            ELSE copy_unless_overlapped(written.val, Tail(entries), min_off,
                                        Max(copied_end, e.file_off + copy_len))

\* the copy loop in which the first section to cover a byte keeps it
write_entries_skip_overlapped(output, entries, min_off) ==
    copy_unless_overlapped(output, entries, min_off, min_off)

RECURSIVE write_entries(_, _, _)
\* the copy loop of process_sections
write_entries(output, entries, min_off) ==
    IF entries = <<>> THEN Ok(output)
    ELSE LET e == Head(entries)
             start == e.file_off - min_off
             copy_len == Min(ByteLen(e.data), e.file_size)
             written == copy_from_slice(output, start, Slice(e.data, 0, copy_len))
         IN IF written.kind # "Ok" THEN written
            ELSE write_entries(written.val, Tail(entries), min_off)

RECURSIVE MaxEnd(_)
\* entries.iter().map(|e| e.file_off + e.file_size).max()
MaxEnd(entries) ==
    IF Len(entries) = 1 THEN entries[1].file_off + entries[1].file_size
    ELSE Max(entries[1].file_off + entries[1].file_size, MaxEnd(Tail(entries)))

\* process_sections laying the sections out from the start of the file
process_sections_from_file_start(sections) ==
    IF sections = <<>> THEN Ok(<<>>)
    ELSE LET unsorted == collect_entries(sections)
         IN IF unsorted = <<>> THEN Ok(<<>>)
            ELSE LET entries == StableSortByKey([i \in 1..Len(unsorted) |->
                                 <<unsorted[i].file_off, unsorted[i]>>])
                     total == usize_try_from(MaxEnd(entries))
                 IN IF total.kind # "Ok" THEN Err("SectionSizeOverflow")
                    ELSE write_entries(Zeros(total.val), entries, 0)

RECURSIVE SumOfFileSizes(_)
SumOfFileSizes(entries) ==
    IF entries = <<>> THEN 0 ELSE Head(entries).file_size + SumOfFileSizes(Tail(entries))

\* process_sections sizing the buffer by the sum of the sizes of the entries
process_sections_sum_of_sizes(sections) ==
    IF sections = <<>> THEN Ok(<<>>)
    ELSE LET unsorted == collect_entries(sections)
         IN IF unsorted = <<>> THEN Ok(<<>>)
            ELSE LET entries == StableSortByKey([i \in 1..Len(unsorted) |->
                                 <<unsorted[i].file_off, unsorted[i]>>])
                     min_off == entries[1].file_off
                     total == usize_try_from(SumOfFileSizes(entries))
                 IN IF total.kind # "Ok" THEN Err("SectionSizeOverflow")
                    ELSE write_entries(Zeros(total.val), entries, min_off)

\* process_sections reporting an error when no entry is left
process_sections_empty_is_error(sections) ==
    IF sections = <<>> THEN Ok(<<>>)
    ELSE LET unsorted == collect_entries(sections)
         IN IF unsorted = <<>> THEN Err("ElfParseError")
            ELSE LET entries == StableSortByKey([i \in 1..Len(unsorted) |->
                                 <<unsorted[i].file_off, unsorted[i]>>])
                     min_off == entries[1].file_off
                     max_end == MaxEnd(entries)
                     total == usize_try_from(max_end - min_off)
                 IN IF total.kind # "Ok" THEN Err("SectionSizeOverflow")
                    ELSE write_entries(Zeros(total.val), entries, min_off)

\* process_sections
process_sections(sections) ==
    IF sections = <<>> THEN Ok(<<>>)
    ELSE LET unsorted == collect_entries(sections)
         IN IF unsorted = <<>> THEN Ok(<<>>)
            ELSE LET entries == StableSortByKey([i \in 1..Len(unsorted) |->
                                 <<unsorted[i].file_off, unsorted[i]>>])
                     min_off == entries[1].file_off
                     max_end == MaxEnd(entries)
                     total == usize_try_from(max_end - min_off)
                 IN IF total.kind # "Ok" THEN Err("SectionSizeOverflow")
                    ELSE write_entries(Zeros(total.val), entries, min_off)

\* elf_to_bin_bytes going on to the sections without looking at the parse result
elf_to_bin_bytes_unparsed(e) ==
    LET loadable == get_loadable_sections(e)
    IN IF loadable.kind # "Ok" THEN loadable
       ELSE LET sorted == sort_sections_with_offset(loadable.val)
            IN IF sorted.kind # "Ok" THEN sorted
               ELSE process_sections(sorted.val)

\* elf_to_bin_bytes
elf_to_bin_bytes(e) ==
    IF ~e.valid THEN Err("ElfParseError")
    ELSE LET loadable == get_loadable_sections(e)
         IN IF loadable.kind # "Ok" THEN loadable
            ELSE LET sorted == sort_sections_with_offset(loadable.val)
                 IN IF sorted.kind # "Ok" THEN sorted
                    ELSE process_sections(sorted.val)

\* elf_to_image_bytes dropping the scheme it was given
elf_to_image_bytes_default_scheme(e, enc) ==
    LET bin == elf_to_bin_bytes(e)
    IN IF bin.kind # "Ok" THEN bin ELSE gen_image(bin.val, "None")

\* elf_to_image_bytes
elf_to_image_bytes(e, enc) ==
    LET bin == elf_to_bin_bytes(e)
    IN IF bin.kind # "Ok" THEN bin
       ELSE LET image == gen_image(bin.val, enc)
            IN IF image.kind # "Ok" THEN image ELSE Ok(image.val)

(***************************************************************************)
(* src/xtask/src/main.rs: paths.  A path is a sequence of characters; the  *)
(* last component is what follows the last separator.                      *)
(***************************************************************************)
\* Option<PathBuf>
None == [some |-> FALSE, path |-> <<>>]

Some(path) == [some |-> TRUE, path |-> path]

\* the greatest index of c in q, 0 when c does not occur
LastIndexOf(q, c) ==
    IF \E i \in 1..Len(q) : q[i] = c
    THEN CHOOSE i \in 1..Len(q) : q[i] = c /\ \A j \in (i + 1)..Len(q) : q[j] # c
    ELSE 0

\* Path::file_name: the last component, none when it is "." or ".."
file_name(path) ==
    LET name == SubSeq(path, LastIndexOf(path, "/") + 1, Len(path))
    IN IF name \in {<<>>, <<".">>, <<".", ".">>} THEN None ELSE Some(name)

\* Path::file_stem: the name up to its last dot; all of it when it has no dot
\* or only a leading one
file_stem(name) ==
    LET dot == LastIndexOf(name, ".")
    IN IF dot <= 1 THEN name ELSE SubSeq(name, 1, dot - 1)

\* Path::with_extension: the path cut after the stem of its file name, then
\* a dot and the extension; a path without file name is returned as it is
with_extension(path, extension) ==
    LET name == file_name(path)
    IN IF ~name.some THEN path
       ELSE SubSeq(path, 1, LastIndexOf(path, "/") + Len(file_stem(name.path)))
            \o <<".">> \o extension

\* resolve_output_path appending the extension to the whole input path
resolve_output_path_appending(input, output, default_extension) ==
    IF output.some THEN output.path ELSE input \o <<".">> \o default_extension

\* resolve_output_path
resolve_output_path(input, output, default_extension) ==
    IF output.some THEN output.path ELSE with_extension(input, default_extension)

\* Option<EncryptionType>::unwrap_or_default
unwrap_or_default(encryption_option) ==
    IF encryption_option = "absent" THEN "None" ELSE encryption_option

\* the operator `?` without the error branch: the value, or the default, is used
question_mark_or_default(r, next) == IF r.kind = "Panic" THEN "cli_panic" ELSE next

\* the operator `?` after a step: go on to next, or leave run with the error
question_mark(r, next) ==
    CASE r.kind = "Ok" -> next
      [] r.kind = "Err" -> "cli_error"
      [] r.kind = "Panic" -> "cli_panic"

(***************************************************************************)
(* Inputs                                                                  *)
(***************************************************************************)
MaxLen == 520

MaxSections == 3

MaxEntropy == 2

\* raw binaries: a short head, then up to MaxLen equal bytes
Inputs ==
    { Cat(FromBytes(h), Push(<<>>, Fill(b, n))) :
        h \in {<<>>, <<19, 5>>}, b \in {0, 255}, n \in 0..MaxLen }

\* the raw binaries of the two-run specification
DetInputs ==
    { FromBytes(q) : q \in {<<>>, <<0>>, <<19, 5, 0, 0>>, <<18, 52, 86, 120>>} }

Entropy == 1..MaxEntropy

Section(alloc, kind, off, size, addr, range_ok) ==
    [alloc |-> alloc, kind |-> kind, off |-> off, size |-> size, addr |-> addr,
     range_ok |-> range_ok]

\* the sections an executable is made of: file-backed loadable sections that
\* are contiguous, apart or overlapping, one of them at a distant virtual
\* address; zero-initialized sections of two declared sizes; a section that is
\* not loaded; a section whose compression header is malformed; a section
\* whose range leaves the file
SectionSample ==
    { Section(TRUE, "Text", 4, 4, 0, TRUE),
      Section(TRUE, "Data", 8, 4, 0, TRUE),
      Section(TRUE, "Data", 8, 4, 32768, TRUE),
      Section(TRUE, "Data", 12, 4, 0, TRUE),
      Section(TRUE, "Text", 4, 8, 0, TRUE),
      Section(TRUE, "UninitializedData", 12, 8, 0, TRUE),
      Section(TRUE, "UninitializedData", 8, 64, 32768, TRUE),
      Section(FALSE, "Other", 8, 4, 0, TRUE),
      Section(FALSE, "UninitializedData", 4, 4, 0, TRUE),
      Section(TRUE, "Data", 8, 4, 0, FALSE),
      Section(TRUE, "Data", 12, 8, 0, TRUE) }

SectionTables == UNION { [1..n -> SectionSample] : n \in 0..MaxSections }

ElfInputs ==
    { [valid |-> FALSE, sections |-> <<>>] }
    \cup { [valid |-> TRUE, sections |-> t] : t \in SectionTables }

NoElf == [valid |-> FALSE, sections |-> <<>>]

MaxName == 3

\* file names: every sequence of 1..MaxName characters out of a letter and a dot
Names == UNION { [1..n -> {"f", "."}] : n \in 1..MaxName }

\* input paths: a file name, alone or in a directory whose name holds a dot
InputPaths ==
    Names \cup { <<"d", ".", "d", "/">> \o n : n \in Names \ {<<".">>} }

\* the --output option: absent, or a path with or without extension
OutputOptions == { None, Some(<<"o">>), Some(<<"o", ".", "x">>) }

\* the --encryption option: absent, or one of the three schemes
EncryptionOptions == {"absent"} \cup EncryptionType

\* the text given to --encryption: every string of at most MaxArg characters
\* out of the letters of the three names in both cases, a digit and a letter
\* of no name
MaxArg == 4

Chars == {"n", "N", "o", "O", "e", "E", "s", "S", "m", "M", "a", "A", "4", "x"}

EncryptionArgs == { None } \cup { Some(a) : a \in UNION { [1..n -> Chars] : n \in 0..MaxArg } }

\* input lengths around the lengths where a cast or a limit changes outcome:
\* 0, 2^31, 2^32, 3 * 2^31 and 2^36, each with the lengths up to Spread bytes
\* before and after it
Spread == 24

Thresholds == { W(0, 0), W(32768, 0), W(65536, 0), W(98304, 0), P_MAX }

Sizes ==
    { WAdd(t, d) : t \in Thresholds, d \in 0..Spread }
        \cup { WSub(t, d) : t \in Thresholds, d \in 0..Spread }

Command == {"GenImage", "Elf2Bin", "Elf2Img"}

\* what the input path holds: nothing that can be read, a raw binary, or an
\* executable (well-formed or not)
NoFile == [readable |-> FALSE, data |-> <<>>, elf |-> NoElf]

RawFiles == { [readable |-> TRUE, data |-> d, elf |-> NoElf] : d \in DetInputs }

ElfFiles ==
    { [readable |-> TRUE, data |-> <<>>, elf |-> e] :
        e \in { [valid |-> FALSE, sections |-> <<>>],
                [valid |-> FALSE, sections |-> << Section(TRUE, "Data", 8, 4, 0, FALSE),
                                                  Section(TRUE, "Text", 4, 4, 0, TRUE) >>],
                [valid |-> TRUE, sections |-> <<>>],
                [valid |-> TRUE, sections |-> << Section(TRUE, "Text", 4, 4, 0, TRUE),
                                                 Section(TRUE, "Data", 8, 4, 32768, TRUE),
                                                 Section(TRUE, "UninitializedData", 12, 8, 0, TRUE) >>],
                [valid |-> TRUE, sections |-> << Section(TRUE, "Data", 8, 4, 0, FALSE) >>],
                [valid |-> TRUE, sections |-> << Section(TRUE, "Text", 4, 4, 0, TRUE),
                                                 Section(TRUE, "Data", 8, 4, 0, FALSE) >>] } }

FilesFor(command) ==
    {NoFile} \cup (IF command = "GenImage" THEN RawFiles ELSE ElfFiles)

(***************************************************************************)
(* State machine: one invocation computes one result from its input        *)
(***************************************************************************)
Unset == [kind |-> "Unset", val |-> <<>>, err |-> "none"]

NoRun == [cmd |-> "idle", firmware |-> <<>>, encryption |-> "None", elf |-> NoElf,
          result |-> Unset]

\* the command line, the file system and the streams before main runs
NoCli == [command |-> "none", input |-> <<>>, output |-> None, output_path |-> <<>>,
          encryption_arg |-> None,
          file |-> NoFile, log |-> <<>>, writes |-> <<>>, stdout |-> <<>>,
          stderr |-> <<>>, exit_code |-> -1]

(***************************************************************************)
(* src/kendryte-hal/src/gpio: the pins of one GPIO instance                *)
(*                                                                         *)
(* A 32-bit register of one bit per pin is the set of the pins whose bit   *)
(* is 1.  The register block is m.regs; m.written collects the registers a *)
(* call has written.  A pin object is [type, port, pin_num, mode]; mode is *)
(* the field of Dynamic, "none" for the other types.  The pad (pull        *)
(* resistor, drive strength) belongs to the iomux and is left out.  A      *)
(* call returns [m, pin, result].                                          *)
(***************************************************************************)
GpioPort == {"A", "B"}

PinState == {"Low", "High"}

PinMode == {"Input", "Output", "Unconfigured"}

\* P::PIN_NUM of the pads used: the first and the last pin of a port
PinNumbers == {0, 31}

BoolStr(b) == IF b THEN "true" ELSE "false"

Pin(type, port, pin_num, mode) ==
    [type |-> type, port |-> port, pin_num |-> pin_num, mode |-> mode]

Ret(m, pin, r) == [m |-> m, pin |-> pin, result |-> r]

\* Dr::with_pin_state, Dr::pin_state and Ddr::with_direction of the bitfields
with_pin_state(r, n, state) == IF state = "High" THEN r \cup {n} ELSE r \ {n}

pin_state(r, n) == IF n \in r THEN "High" ELSE "Low"

with_direction(r, n, direction) == IF direction = "Output" THEN r \cup {n} ELSE r \ {n}

\* modify_<reg>(|r| ..): the register is read and written back with value
modify(m, reg, value) ==
    [regs |-> [m.regs EXCEPT ![reg] = value], written |-> m.written \cup {reg}]

\* PinCommon::output_state
PinCommon_output_state(m, c) ==
    CASE c.port = "A" -> pin_state(m.regs.swporta_dr, c.pin_num)
      [] c.port = "B" -> pin_state(m.regs.swportb_dr, c.pin_num)

\* PinCommon::set_output_state
PinCommon_set_output_state(m, c, state) ==
    CASE c.port = "A" ->
            modify(m, "swporta_dr", with_pin_state(m.regs.swporta_dr, c.pin_num, state))
      [] c.port = "B" ->
            modify(m, "swportb_dr", with_pin_state(m.regs.swportb_dr, c.pin_num, state))

\* PinCommon::configure_as_input
PinCommon_configure_as_input(m, c) ==
    CASE c.port = "A" ->
            modify(m, "swporta_ddr", with_direction(m.regs.swporta_ddr, c.pin_num, "Input"))
      [] c.port = "B" ->
            modify(m, "swportb_ddr", with_direction(m.regs.swportb_ddr, c.pin_num, "Input"))

\* PinCommon::configure_as_output
PinCommon_configure_as_output(m, c, state) ==
    CASE c.port = "A" ->
            LET m1 == modify(m, "swporta_ddr",
                             with_direction(m.regs.swporta_ddr, c.pin_num, "Output"))
            IN modify(m1, "swporta_dr", with_pin_state(m1.regs.swporta_dr, c.pin_num, state))
      [] c.port = "B" ->
            LET m1 == modify(m, "swportb_ddr",
                             with_direction(m.regs.swportb_ddr, c.pin_num, "Output"))
            IN modify(m1, "swportb_dr", with_pin_state(m1.regs.swportb_dr, c.pin_num, state))

\* Unconfigured::new, into_input, into_output, into_dynamic
Unconfigured_new(m, port, pin_num) ==
    Ret(m, Pin("Unconfigured", port, pin_num, "none"), Ok("()"))

Unconfigured_into_input(m, pin) ==
    Ret(PinCommon_configure_as_input(m, pin),
        Pin("Input", pin.port, pin.pin_num, "none"), Ok("()"))

Unconfigured_into_output(m, pin, state) ==
    Ret(PinCommon_configure_as_output(m, pin, state),
        Pin("Output", pin.port, pin.pin_num, "none"), Ok("()"))

Unconfigured_into_dynamic(m, pin) ==
    Ret(m, Pin("Dynamic", pin.port, pin.pin_num, "Unconfigured"), Ok("()"))

\* into_unconfigured of Input, Output and Dynamic
into_unconfigured(m, pin) ==
    Ret(m, Pin("Unconfigured", pin.port, pin.pin_num, "none"), Ok("()"))

\* blocking Input::new, into_output, into_dynamic
Input_new(m, port, pin_num) ==
    Unconfigured_into_input(m, Unconfigured_new(m, port, pin_num).pin)

Input_into_output(m, pin, state) ==
    Unconfigured_into_output(m, into_unconfigured(m, pin).pin, state)

Input_into_dynamic(m, pin) == Ret(m, Pin("Dynamic", pin.port, pin.pin_num, "Input"), Ok("()"))

\* blocking Output::new, set_state, state, into_input, into_dynamic
Output_new(m, port, pin_num, state) ==
    Unconfigured_into_output(m, Unconfigured_new(m, port, pin_num).pin, state)

Output_set_state(m, pin, state) == Ret(PinCommon_set_output_state(m, pin, state), pin, Ok("()"))

Output_state(m, pin) == Ret(m, pin, Ok(PinCommon_output_state(m, pin)))

Output_into_input(m, pin) == Unconfigured_into_input(m, into_unconfigured(m, pin).pin)

Output_into_dynamic(m, pin) == Ret(m, Pin("Dynamic", pin.port, pin.pin_num, "Output"), Ok("()"))

\* Dynamic::new, mode, configure_as_input, configure_as_output
Dynamic_new(m, port, pin_num) ==
    Unconfigured_into_dynamic(m, Unconfigured_new(m, port, pin_num).pin)

Dynamic_mode(m, pin) == Ret(m, pin, Ok(pin.mode))

Dynamic_configure_as_input(m, pin) ==
    Ret(PinCommon_configure_as_input(m, pin), [pin EXCEPT !.mode = "Input"], Ok("()"))

Dynamic_configure_as_output(m, pin, state) ==
    Ret(PinCommon_configure_as_output(m, pin, state), [pin EXCEPT !.mode = "Output"], Ok("()"))

\* Dynamic::new_input, new_output
Dynamic_new_input(m, port, pin_num) ==
    Dynamic_configure_as_input(m, Dynamic_new(m, port, pin_num).pin)

Dynamic_new_output(m, port, pin_num, state) ==
    Dynamic_configure_as_output(m, Dynamic_new(m, port, pin_num).pin, state)

\* Dynamic::read_input_state; level is what the pin reads in ext_porta / ext_portb
Dynamic_read_input_state(m, pin, level) ==
    IF pin.mode # "Input" THEN Ret(m, pin, Err("IncompatibleMode"))
    ELSE Ret(m, pin, Ok(level))

\* Dynamic::set_output_state writing the data register in whatever mode
Dynamic_set_output_state_unchecked(m, pin, state) ==
    Ret(PinCommon_set_output_state(m, pin, state), pin, Ok("()"))

\* Dynamic::set_output_state
Dynamic_set_output_state(m, pin, state) ==
    IF pin.mode # "Output" THEN Ret(m, pin, Err("IncompatibleMode"))
    ELSE Ret(PinCommon_set_output_state(m, pin, state), pin, Ok("()"))

\* Dynamic::output_state
Dynamic_output_state(m, pin) ==
    IF pin.mode # "Output" THEN Ret(m, pin, Err("IncompatibleMode"))
    ELSE Ret(m, pin, Ok(PinCommon_output_state(m, pin)))

\* the operator `?` followed by a comparison with a PinState
IsState(r, state) ==
    IF r.result.kind # "Ok" THEN r ELSE Ret(r.m, r.pin, Ok(BoolStr(r.result.val = state)))

\* InputPin, OutputPin and StatefulOutputPin for Dynamic
Dynamic_is_high(m, pin, level) == IsState(Dynamic_read_input_state(m, pin, level), "High")

Dynamic_is_low(m, pin, level) == IsState(Dynamic_read_input_state(m, pin, level), "Low")

Dynamic_set_low(m, pin) == Dynamic_set_output_state(m, pin, "Low")

Dynamic_set_high(m, pin) == Dynamic_set_output_state(m, pin, "High")

Dynamic_is_set_high(m, pin) == IsState(Dynamic_output_state(m, pin), "High")

Dynamic_is_set_low(m, pin) == IsState(Dynamic_output_state(m, pin), "Low")

\* Dynamic::into_input, into_output
Dynamic_into_input(m, pin) ==
    Ret(PinCommon_configure_as_input(m, pin),
        Pin("Input", pin.port, pin.pin_num, "none"), Ok("()"))

Dynamic_into_output(m, pin, state) ==
    Ret(PinCommon_configure_as_output(m, pin, state),
        Pin("Output", pin.port, pin.pin_num, "none"), Ok("()"))

(***************************************************************************)
(* src/kendryte-hal/src/gpio/output.rs and input.rs: the pin types that    *)
(* access the registers themselves                                         *)
(***************************************************************************)
\* Output::new of gpio/output.rs: both arms of the match write port A
gpio_Output_new(m, port, pin_num, state) ==
    LET m1 == CASE port = "A" ->
                    modify(m, "swporta_ddr",
                           with_direction(m.regs.swporta_ddr, pin_num, "Output"))
                [] port = "B" ->
                    modify(m, "swporta_ddr",
                           with_direction(m.regs.swporta_ddr, pin_num, "Output"))
        m2 == CASE port = "A" ->
                    modify(m1, "swporta_dr", with_pin_state(m1.regs.swporta_dr, pin_num, state))
                [] port = "B" ->
                    modify(m1, "swporta_dr", with_pin_state(m1.regs.swporta_dr, pin_num, state))
    IN Ret(m2, Pin("gpio::Output", port, pin_num, "none"), Ok("()"))

\* Output::into_input of gpio/output.rs
gpio_Output_into_input(m, pin) ==
    Ret(CASE pin.port = "A" ->
                modify(m, "swporta_ddr",
                       with_direction(m.regs.swporta_ddr, pin.pin_num, "Input"))
          [] pin.port = "B" ->
                modify(m, "swportb_ddr",
                       with_direction(m.regs.swportb_ddr, pin.pin_num, "Input")),
        Pin("gpio::Input", pin.port, pin.pin_num, "none"), Ok("()"))

\* OutputPin::set_low and set_high of gpio/output.rs
gpio_Output_set(m, pin, state) ==
    Ret(CASE pin.port = "A" ->
                modify(m, "swporta_dr", with_pin_state(m.regs.swporta_dr, pin.pin_num, state))
          [] pin.port = "B" ->
                modify(m, "swportb_dr", with_pin_state(m.regs.swportb_dr, pin.pin_num, state)),
        pin, Ok("()"))

gpio_Output_set_low(m, pin) == gpio_Output_set(m, pin, "Low")

gpio_Output_set_high(m, pin) == gpio_Output_set(m, pin, "High")

\* Input::new of gpio/input.rs
gpio_Input_new(m, port, pin_num) ==
    Ret(CASE port = "A" ->
                modify(m, "swporta_ddr", with_direction(m.regs.swporta_ddr, pin_num, "Input"))
          [] port = "B" ->
                modify(m, "swportb_ddr", with_direction(m.regs.swportb_ddr, pin_num, "Input")),
        Pin("gpio::Input", port, pin_num, "none"), Ok("()"))

\* Input::into_output of gpio/input.rs
gpio_Input_into_output(m, pin, state) ==
    LET m2 == CASE pin.port = "A" ->
                    LET m1 == modify(m, "swporta_ddr",
                                     with_direction(m.regs.swporta_ddr, pin.pin_num, "Output"))
                    IN modify(m1, "swporta_dr",
                              with_pin_state(m1.regs.swporta_dr, pin.pin_num, state))
                [] pin.port = "B" ->
                    LET m1 == modify(m, "swportb_ddr",
                                     with_direction(m.regs.swportb_ddr, pin.pin_num, "Output"))
                    IN modify(m1, "swportb_dr",
                              with_pin_state(m1.regs.swportb_dr, pin.pin_num, state))
    IN Ret(m2, Pin("gpio::Output", pin.port, pin.pin_num, "none"), Ok("()"))

\* the state of the GPIO model: the registers after reset, no pin object, no
\* call made yet; configured records the last configure call made since
\* Dynamic::new ("none" for a pin that did not come from Dynamic::new)
NoPin == Pin("none", "A", 0, "none")

GpioReset ==
    [regs |-> [swporta_dr |-> {}, swporta_ddr |-> {}, swportb_dr |-> {}, swportb_ddr |-> {}],
     pin |-> NoPin, op |-> "none", result |-> Unset, written |-> {}, changed |-> {},
     configured |-> "none"]

(***************************************************************************)
(* src/kendryte-hal/src/pwm: one Pwm driver and its three channels         *)
(*                                                                         *)
(* pwm.top is the Cell of the driver, pwm.cmpn[n] the value of comparator  *)
(* register n (0 holds the period), pwm.channels says whether the channels *)
(* returned by split are alive; while they are, the driver is borrowed and *)
(* its &mut methods cannot be called.  pwm.op, idx, duty and result are    *)
(* the last call, its channel, its argument and what it returned,          *)
(* pwm.written the comparators it wrote, pwm.changed those whose value it  *)
(* changed, and pwm.period the value last passed to set_period.            *)
(***************************************************************************)
U16_MAX == 65535

\* the u16 values passed to set_period and set_duty_cycle
U16Samples == {0, 1, 1000, U16_MAX}

Channels == 1..3

\* Pwm::new
Pwm_new ==
    [top |-> 0, cmpn |-> [n \in 0..3 |-> 0], channels |-> FALSE, op |-> "none", idx |-> 0,
     duty |-> 0, result |-> Unset, written |-> {}, changed |-> {}, period |-> 0]

\* Pwm::set_period
Pwm_set_period(p, top) ==
    [p EXCEPT !.top = top, !.cmpn[0] = top, !.written = @ \cup {0}]

\* Pwm::top
Pwm_top(p) == p.top

\* SetDutyCycle::max_duty_cycle of Ch1, Ch2, Ch3
max_duty_cycle(p) == Pwm_top(p)

\* set_duty_cycle without the clamp: the u16 subtraction wraps
set_duty_cycle_unclamped(p, idx, duty) ==
    LET top == max_duty_cycle(p)
        threshold == (top - duty) % (U16_MAX + 1)
    IN [p EXCEPT !.cmpn[idx] = threshold, !.written = @ \cup {idx}]

\* SetDutyCycle::set_duty_cycle of Ch1, Ch2, Ch3 (idx = 1, 2, 3)
set_duty_cycle(p, idx, duty) ==
    LET top == max_duty_cycle(p)
        clamped == Min(duty, top)
        threshold == top - clamped
    IN [p EXCEPT !.cmpn[idx] = threshold, !.written = @ \cup {idx}]

(***************************************************************************)
(* src/kendryte-hal/src/uart: one BlockingUart                             *)
(*                                                                         *)
(* uart.made says that a BlockingUart exists, uart.tx and uart.rx that its *)
(* tx and rx fields are Some.  uart.sent is the bytes written to the       *)
(* transmitter holding register since the UART was created.  uart.op and   *)
(* uart.result are the last call and what it returned, uart.read and       *)
(* uart.written the registers that call read and wrote.  What the line     *)
(* status register answers is an input of each call.                       *)
(***************************************************************************)
\* enum UartError
UartError == {"Framing", "Parity", "Overrun", "NotFoundTx", "NotFoundRx"}

\* the bytes written
UartBytes == {85, 170}

\* the longest buffer passed to write, write_all and read
MaxBuf == 2

\* the most bytes sent through one BlockingUart
MaxSent == 3

UartBufs == UNION { [1..n -> UartBytes] : n \in 0..MaxBuf }

NoUart ==
    [made |-> FALSE, tx |-> FALSE, rx |-> FALSE, sent |-> <<>>, op |-> "none",
     result |-> Unset, read |-> {}, written |-> {}]

\* a call and what it returns
UartRet(u, ret) == [u |-> u, ret |-> ret]

\* the registers a call reads and writes
Touch(u, reads, writes) ==
    [u EXCEPT !.read = @ \cup reads, !.written = @ \cup writes]

\* BlockingUart::configure: every step is a read-modify-write
configure(u) ==
    LET regs == {"ier_dlh", "lcr", "rbr_thr_dll", "iir_fcr"}
    IN Touch(u, regs, regs)

\* BlockingUart::new, with or without the pads
BlockingUart_new(tx, rx) ==
    [configure(NoUart) EXCEPT !.made = TRUE, !.tx = tx, !.rx = rx]

\* blocking_write: ready is how many times in a row the line status register
\* reports the transmitter ready
blocking_write(u, buf, ready) ==
    LET count == Min(ready, Len(buf))
        polled == IF Len(buf) > 0 THEN Touch(u, {"lsr"}, {}) ELSE u
        stored == IF count > 0
                  THEN Touch(polled, {"rbr_thr_dll"}, {"rbr_thr_dll"})
                  ELSE polled
    IN UartRet([stored EXCEPT !.sent = @ \o SubSeq(buf, 1, count)], count)

\* blocking_read: ready is how many times in a row the line status register
\* reports data_ready
blocking_read(u, len, ready) ==
    LET count == Min(ready, len)
        polled == IF len > 0 THEN Touch(u, {"lsr"}, {}) ELSE u
    IN UartRet(IF count > 0 THEN Touch(polled, {"rbr_thr_dll"}, {}) ELSE polled, count)

\* blocking_flush: polls the line status register until transmitter_empty
blocking_flush(u) == Touch(u, {"lsr"}, {})

\* embedded_io::Write::write of BlockingUartTx
Tx_write(u, buf, ready) ==
    LET w == blocking_write(u, buf, ready)
    IN UartRet(w.u, Ok(w.ret))

\* embedded_io::Write::flush of BlockingUartTx
Tx_flush(u) == UartRet(blocking_flush(u), Ok("()"))

\* embedded_io::Write::write_all of BlockingUartTx: calls write until the
\* whole buffer is taken
Tx_write_all(u, buf) ==
    UartRet(blocking_write(u, buf, Len(buf)).u, Ok("()"))

\* embedded_io::WriteReady::write_ready of BlockingUartTx
Tx_write_ready(u, ready) == UartRet(Touch(u, {"lsr"}, {}), Ok(BoolStr(ready)))

\* embedded_hal_nb::serial::Write::write of BlockingUartTx
Tx_nb_write(u, word, ready) ==
    LET w == blocking_write(u, <<word>>, ready)
    IN UartRet(w.u, IF w.ret = 0 THEN Err("WouldBlock") ELSE Ok("()"))

\* embedded_hal_nb::serial::Write::flush of BlockingUartTx
Tx_nb_flush(u, transmitter_empty) ==
    UartRet(Touch(u, {"lsr"}, {}),
            IF transmitter_empty THEN Ok("()") ELSE Err("WouldBlock"))

\* embedded_io::Read::read of BlockingUartRx
Rx_read(u, len, ready) ==
    LET r == blocking_read(u, len, ready)
    IN UartRet(r.u, Ok(r.ret))

\* embedded_hal_nb::serial::Read::read of BlockingUartRx
Rx_nb_read(u, ready, byte) ==
    LET r == blocking_read(u, 1, ready)
    IN UartRet(r.u, IF r.ret = 0 THEN Err("WouldBlock") ELSE Ok(byte))

\* embedded_io::ReadReady::read_ready of BlockingUartRx
Rx_read_ready(u, data_ready) ==
    UartRet(Touch(u, {"lsr"}, {}), Ok(BoolStr(data_ready)))

\* embedded_io::Read::read of BlockingUart
BlockingUart_read(u, len, ready) ==
    IF ~u.rx THEN UartRet(u, Err("NotFoundRx")) ELSE Rx_read(u, len, ready)

\* embedded_io::Write::write of BlockingUart
BlockingUart_write(u, buf, ready) ==
    IF ~u.tx THEN UartRet(u, Err("NotFoundRx")) ELSE Tx_write(u, buf, ready)

\* embedded_io::Write::flush of BlockingUart
BlockingUart_flush(u) ==
    IF ~u.tx THEN UartRet(u, Err("NotFoundRx")) ELSE Tx_flush(u)

\* embedded_io::Write::write_all of BlockingUart
BlockingUart_write_all(u, buf) ==
    IF ~u.tx THEN UartRet(u, Err("NotFoundRx")) ELSE Tx_write_all(u, buf)

\* embedded_io::ReadReady::read_ready of BlockingUart
BlockingUart_read_ready(u, data_ready) ==
    IF ~u.rx THEN UartRet(u, Err("NotFoundRx")) ELSE Rx_read_ready(u, data_ready)

\* embedded_io::WriteReady::write_ready of BlockingUart
BlockingUart_write_ready(u, ready) ==
    IF ~u.tx THEN UartRet(u, Err("NotFoundRx")) ELSE Tx_write_ready(u, ready)

\* embedded_hal_nb::serial::Read::read of BlockingUart
BlockingUart_nb_read(u, ready, byte) ==
    IF ~u.rx THEN UartRet(u, Err("NotFoundRx")) ELSE Rx_nb_read(u, ready, byte)

\* embedded_hal_nb::serial::Write::write of BlockingUart
BlockingUart_nb_write(u, word, ready) ==
    IF ~u.tx THEN UartRet(u, Err("NotFoundRx")) ELSE Tx_nb_write(u, word, ready)

\* embedded_hal_nb::serial::Write::flush of BlockingUart
BlockingUart_nb_flush(u, transmitter_empty) ==
    IF ~u.tx THEN UartRet(u, Err("NotFoundRx")) ELSE Tx_nb_flush(u, transmitter_empty)

\* BlockingUart::split: the UART is consumed, its halves are handed out
BlockingUart_split(u) ==
    UartRet([u EXCEPT !.made = FALSE], Ok(<<BoolStr(u.tx), BoolStr(u.rx)>>))

Init ==
    /\ pc = "idle"
    /\ firmware = <<>>
    /\ encryption = "None"
    /\ elf = NoElf
    /\ result = Unset
    /\ entropy = 1
    /\ prev = NoRun
    /\ cli = NoCli
    /\ host = "little"
    /\ input_len = W(0, 0)
    /\ gpio = GpioReset
    /\ pwm = Pwm_new
    /\ uart = NoUart

\* gen_image(&data, encryption), on one of the given raw binaries
GenImage(inputs) ==
    /\ pc = "idle"
    /\ \E fw \in inputs, enc \in EncryptionType :
        /\ firmware' = fw
        /\ encryption' = enc
        /\ result' = gen_image(fw, enc)
    /\ pc' = "gen_image"
    /\ UNCHANGED <<elf, entropy, prev, cli, host, input_len, gpio, pwm, uart>>

\* elf_to_bin_bytes(&elf_data)
ElfToBinBytes ==
    /\ pc = "idle"
    /\ \E e \in ElfInputs :
        /\ elf' = e
        /\ result' = elf_to_bin_bytes(e)
    /\ pc' = "elf_to_bin_bytes"
    /\ UNCHANGED <<firmware, encryption, entropy, prev, cli, host, input_len, gpio, pwm, uart>>

\* elf_to_image_bytes(&elf_data, encryption)
ElfToImageBytes ==
    /\ pc = "idle"
    /\ \E e \in ElfInputs, enc \in EncryptionType :
        /\ elf' = e
        /\ encryption' = enc
        /\ result' = elf_to_image_bytes(e, enc)
    /\ pc' = "elf_to_image_bytes"
    /\ UNCHANGED <<firmware, entropy, prev, cli, host, input_len, gpio, pwm, uart>>

\* gen_firmware(&data, encryption), in a build for a host of either byte order
GenFirmware ==
    /\ pc = "idle"
    /\ \E fw \in Inputs, enc \in EncryptionType, order \in ByteOrder :
        /\ firmware' = fw
        /\ encryption' = enc
        /\ host' = order
        /\ result' = gen_firmware(fw, enc, order)
    /\ pc' = "gen_firmware"
    /\ UNCHANGED <<elf, entropy, prev, cli, input_len, gpio, pwm, uart>>

\* the process ends and the tool is run again: nothing of the run is kept but
\* what the observer recorded, and the system's randomness has moved on
NextInvocation ==
    /\ pc # "idle"
    /\ prev = NoRun
    /\ prev' = [cmd |-> pc, firmware |-> firmware, encryption |-> encryption,
                elf |-> elf, result |-> result]
    /\ pc' = "idle"
    /\ firmware' = <<>>
    /\ encryption' = "None"
    /\ elf' = NoElf
    /\ result' = Unset
    /\ entropy' \in Entropy
    /\ UNCHANGED <<cli, host, input_len, gpio, pwm, uart>>

Next == GenImage(Inputs)

Spec == Init /\ [][Next]_vars

NextElf == ElfToBinBytes \/ ElfToImageBytes

SpecElf == Init /\ [][NextElf]_vars

NextDet == GenImage(DetInputs) \/ NextInvocation

SpecDet == Init /\ [][NextDet]_vars

NextFw == GenFirmware

SpecFw == Init /\ [][NextFw]_vars

(***************************************************************************)
(* src/xtask/src/main.rs: one run of the command-line tool, step by step.  *)
(* cli.log records each fallible step with its outcome, cli.writes each    *)
(* call of fs::write.                                                      *)
(***************************************************************************)
Logged(step, r) == [step |-> step, kind |-> r.kind, err |-> r.err]

default_extension(command) ==
    IF command = "Elf2Bin" THEN <<"b", "i", "n">> ELSE <<"i", "m", "g">>

\* Cli::parse() and the head of a match arm of run: the output path and the
\* scheme are resolved before anything is read
CliParse ==
    /\ pc = "idle"
    /\ \E command \in Command, input \in InputPaths, output \in OutputOptions,
          enc \in EncryptionOptions :
        \E file \in FilesFor(command) :
            /\ command = "Elf2Bin" => enc = "absent"
            /\ cli' = [NoCli EXCEPT
                         !.command = command,
                         !.input = input,
                         !.output = output,
                         !.output_path =
                             resolve_output_path(input, output, default_extension(command)),
                         !.file = file]
            /\ encryption' = unwrap_or_default(enc)
    /\ pc' = "cli_read"
    /\ UNCHANGED <<firmware, elf, result, entropy, prev, host, input_len, gpio, pwm, uart>>

\* fs::read(&input)?: an error when the path names no readable file
FsRead ==
    /\ pc = "cli_read"
    /\ LET ok == cli.file.readable /\ file_name(cli.input).some
           r == IF ok THEN Ok(cli.file.data) ELSE Err("Io")
       IN /\ result' = r
          /\ firmware' = IF ok /\ cli.command = "GenImage" THEN cli.file.data ELSE firmware
          /\ elf' = IF ok /\ cli.command # "GenImage" THEN cli.file.elf ELSE elf
          /\ cli' = [cli EXCEPT !.log = Append(@, Logged("read", r))]
          /\ pc' = question_mark(r, IF cli.command = "GenImage"
                                    THEN "cli_generate" ELSE "cli_flatten")
    /\ UNCHANGED <<encryption, entropy, prev, host, input_len, gpio, pwm, uart>>

\* elf_to_bin_bytes(&elf_data)? in elf_to_bin and in elf_to_image_bytes
CliFlatten ==
    /\ pc = "cli_flatten"
    /\ LET r == elf_to_bin_bytes(elf)
       IN /\ result' = r
          /\ firmware' = r.val
          /\ cli' = [cli EXCEPT !.log = Append(@, Logged("flatten", r))]
          /\ pc' = question_mark(r, IF cli.command = "Elf2Bin"
                                    THEN "cli_write" ELSE "cli_generate")
    /\ UNCHANGED <<encryption, elf, entropy, prev, host, input_len, gpio, pwm, uart>>

\* gen_image(&data, encryption)? in run and in elf_to_image_bytes
CliGenerate ==
    /\ pc = "cli_generate"
    /\ LET r == gen_image(firmware, encryption)
       IN /\ result' = r
          /\ cli' = [cli EXCEPT !.log = Append(@, Logged("generate", r))]
          /\ pc' = question_mark(r, "cli_write")
    /\ UNCHANGED <<firmware, encryption, elf, entropy, prev, host, input_len, gpio, pwm, uart>>

\* fs::write(&output_path, bytes)?: the file system accepts the write or not
FsWrite ==
    /\ pc = "cli_write"
    /\ \E ok \in BOOLEAN :
        LET r == IF ok THEN Ok(<<>>) ELSE Err("Io")
        IN /\ result' = r
           /\ cli' = [cli EXCEPT
                        !.writes = Append(@, [path |-> cli.output_path,
                                              bytes |-> result.val, ok |-> ok]),
                        !.log = Append(@, Logged("write", r))]
           /\ pc' = question_mark(r, "cli_success")
    /\ UNCHANGED <<firmware, encryption, elf, entropy, prev, host, input_len, gpio, pwm, uart>>

\* println!("Success! ... saved to: {}", output_path.display()), run returns
\* Ok(()) and main returns
CliSuccess ==
    /\ pc = "cli_success"
    /\ cli' = [cli EXCEPT !.stdout = Append(@, cli.output_path), !.exit_code = 0]
    /\ pc' = "cli_exit"
    /\ UNCHANGED <<firmware, encryption, elf, result, entropy, prev, host, input_len, gpio, pwm, uart>>

\* main: eprintln!("Error: {}", err); std::process::exit(1)
CliError ==
    /\ pc = "cli_error"
    /\ cli' = [cli EXCEPT !.stderr = Append(@, result.err), !.exit_code = 1]
    /\ pc' = "cli_exit"
    /\ UNCHANGED <<firmware, encryption, elf, result, entropy, prev, host, input_len, gpio, pwm, uart>>

\* a panic unwinds through run and main: the message goes to stderr and the
\* process ends with status 101
CliPanic ==
    /\ pc = "cli_panic"
    /\ cli' = [cli EXCEPT !.stderr = Append(@, result.err), !.exit_code = 101]
    /\ pc' = "cli_exit"
    /\ UNCHANGED <<firmware, encryption, elf, result, entropy, prev, host, input_len, gpio, pwm, uart>>

NextCli ==
    \/ CliParse
    \/ FsRead
    \/ CliFlatten
    \/ CliGenerate
    \/ FsWrite
    \/ CliSuccess
    \/ CliError
    \/ CliPanic

SpecCli == Init /\ [][NextCli]_vars

\* the --encryption option of gen-image: when given, its text is parsed with
\* EncryptionType::from_str; run then takes encryption.unwrap_or_default()
ParseEncryption ==
    /\ pc = "idle"
    /\ \E arg \in EncryptionArgs :
        LET r == IF arg.some THEN from_str(arg.path) ELSE Unset
        IN /\ cli' = [NoCli EXCEPT !.command = "GenImage", !.encryption_arg = arg]
           /\ result' = r
           /\ encryption' = IF ~arg.some THEN unwrap_or_default("absent")
                            ELSE IF r.kind = "Ok" THEN unwrap_or_default(r.val)
                            ELSE encryption
    /\ pc' = "from_str"
    /\ UNCHANGED <<firmware, elf, entropy, prev, host, input_len, gpio, pwm, uart>>

NextParse == ParseEncryption

SpecParse == Init /\ [][NextParse]_vars

\* gen_image(&data, encryption) on an input of a length taken from Sizes
GenImageLarge ==
    /\ pc = "idle"
    /\ \E len \in Sizes, enc \in EncryptionType :
        /\ input_len' = len
        /\ encryption' = enc
        /\ result' = gen_image_header(len, enc)
    /\ pc' = "gen_image_large"
    /\ UNCHANGED <<firmware, elf, entropy, prev, cli, host, gpio, pwm, uart>>

NextLarge == GenImageLarge

SpecLarge == Init /\ [][NextLarge]_vars

(***************************************************************************)
(* The GPIO instance in use: one pin object at a time is created, used,    *)
(* converted and dropped; the registers keep what earlier pins left.       *)
(* gpio.op and gpio.result are the last call and what it returned,         *)
(* gpio.written the registers it wrote and gpio.changed the bits           *)
(* <<register, pin>> whose value it changed.                               *)
(***************************************************************************)
GpioRegisters == {"swporta_dr", "swporta_ddr", "swportb_dr", "swportb_ddr"}

Changed(old, new) ==
    UNION { { <<reg, n>> : n \in (old[reg] \ new[reg]) \cup (new[reg] \ old[reg]) } :
            reg \in GpioRegisters }

\* the register block as a call finds it
M0 == [regs |-> gpio.regs, written |-> {}]

OnPin(type) == pc \in {"idle", "gpio"} /\ gpio.pin.type = type

GpioCall(op, out, configured) ==
    /\ gpio' = [regs |-> out.m.regs, pin |-> out.pin, op |-> op, result |-> out.result,
                written |-> out.m.written, changed |-> Changed(gpio.regs, out.m.regs),
                configured |-> configured]
    /\ pc' = "gpio"
    /\ UNCHANGED <<firmware, encryption, elf, result, entropy, prev, cli, host, input_len, pwm, uart>>

UnconfiguredNew ==
    /\ OnPin("none")
    /\ \E port \in GpioPort, n \in PinNumbers :
        GpioCall("Unconfigured::new", Unconfigured_new(M0, port, n), "none")

InputNew ==
    /\ OnPin("none")
    /\ \E port \in GpioPort, n \in PinNumbers :
        GpioCall("Input::new", Input_new(M0, port, n), "none")

OutputNew ==
    /\ OnPin("none")
    /\ \E port \in GpioPort, n \in PinNumbers, state \in PinState :
        GpioCall("Output::new", Output_new(M0, port, n, state), "none")

DynamicNew ==
    /\ OnPin("none")
    /\ \E port \in GpioPort, n \in PinNumbers :
        GpioCall("Dynamic::new", Dynamic_new(M0, port, n), "Unconfigured")

DynamicNewInput ==
    /\ OnPin("none")
    /\ \E port \in GpioPort, n \in PinNumbers :
        GpioCall("Dynamic::new_input", Dynamic_new_input(M0, port, n), "Input")

DynamicNewOutput ==
    /\ OnPin("none")
    /\ \E port \in GpioPort, n \in PinNumbers, state \in PinState :
        GpioCall("Dynamic::new_output", Dynamic_new_output(M0, port, n, state), "Output")

GpioOutputNew ==
    /\ OnPin("none")
    /\ \E port \in GpioPort, n \in PinNumbers, state \in PinState :
        GpioCall("gpio::Output::new", gpio_Output_new(M0, port, n, state), "none")

GpioInputNew ==
    /\ OnPin("none")
    /\ \E port \in GpioPort, n \in PinNumbers :
        GpioCall("gpio::Input::new", gpio_Input_new(M0, port, n), "none")

UnconfiguredIntoInput ==
    /\ OnPin("Unconfigured")
    /\ GpioCall("Unconfigured::into_input", Unconfigured_into_input(M0, gpio.pin), "none")

UnconfiguredIntoOutput ==
    /\ OnPin("Unconfigured")
    /\ \E state \in PinState :
        GpioCall("Unconfigured::into_output", Unconfigured_into_output(M0, gpio.pin, state),
                 "none")

UnconfiguredIntoDynamic ==
    /\ OnPin("Unconfigured")
    /\ GpioCall("Unconfigured::into_dynamic", Unconfigured_into_dynamic(M0, gpio.pin), "none")

IntoUnconfigured ==
    /\ pc \in {"idle", "gpio"}
    /\ gpio.pin.type \in {"Input", "Output", "Dynamic"}
    /\ GpioCall("into_unconfigured", into_unconfigured(M0, gpio.pin), "none")

InputIntoOutput ==
    /\ OnPin("Input")
    /\ \E state \in PinState :
        GpioCall("Input::into_output", Input_into_output(M0, gpio.pin, state), "none")

InputIntoDynamic ==
    /\ OnPin("Input")
    /\ GpioCall("Input::into_dynamic", Input_into_dynamic(M0, gpio.pin), "none")

OutputSetLow ==
    /\ OnPin("Output")
    /\ GpioCall("Output::set_low", Output_set_state(M0, gpio.pin, "Low"), "none")

OutputSetHigh ==
    /\ OnPin("Output")
    /\ GpioCall("Output::set_high", Output_set_state(M0, gpio.pin, "High"), "none")

OutputIntoInput ==
    /\ OnPin("Output")
    /\ GpioCall("Output::into_input", Output_into_input(M0, gpio.pin), "none")

OutputIntoDynamic ==
    /\ OnPin("Output")
    /\ GpioCall("Output::into_dynamic", Output_into_dynamic(M0, gpio.pin), "none")

DynamicMode ==
    /\ OnPin("Dynamic")
    /\ GpioCall("mode", Dynamic_mode(M0, gpio.pin), gpio.configured)

DynamicConfigureAsInput ==
    /\ OnPin("Dynamic")
    /\ GpioCall("configure_as_input", Dynamic_configure_as_input(M0, gpio.pin), "Input")

DynamicConfigureAsOutput ==
    /\ OnPin("Dynamic")
    /\ \E state \in PinState :
        GpioCall("configure_as_output", Dynamic_configure_as_output(M0, gpio.pin, state),
                 "Output")

DynamicReadInputState ==
    /\ OnPin("Dynamic")
    /\ \E level \in PinState :
        GpioCall("read_input_state", Dynamic_read_input_state(M0, gpio.pin, level),
                 gpio.configured)

DynamicIsHigh ==
    /\ OnPin("Dynamic")
    /\ \E level \in PinState :
        GpioCall("is_high", Dynamic_is_high(M0, gpio.pin, level), gpio.configured)

DynamicIsLow ==
    /\ OnPin("Dynamic")
    /\ \E level \in PinState :
        GpioCall("is_low", Dynamic_is_low(M0, gpio.pin, level), gpio.configured)

DynamicSetOutputState ==
    /\ OnPin("Dynamic")
    /\ \E state \in PinState :
        GpioCall("set_output_state", Dynamic_set_output_state(M0, gpio.pin, state),
                 gpio.configured)

DynamicSetLow ==
    /\ OnPin("Dynamic")
    /\ GpioCall("set_low", Dynamic_set_low(M0, gpio.pin), gpio.configured)

DynamicSetHigh ==
    /\ OnPin("Dynamic")
    /\ GpioCall("set_high", Dynamic_set_high(M0, gpio.pin), gpio.configured)

DynamicOutputState ==
    /\ OnPin("Dynamic")
    /\ GpioCall("output_state", Dynamic_output_state(M0, gpio.pin), gpio.configured)

DynamicIsSetHigh ==
    /\ OnPin("Dynamic")
    /\ GpioCall("is_set_high", Dynamic_is_set_high(M0, gpio.pin), gpio.configured)

DynamicIsSetLow ==
    /\ OnPin("Dynamic")
    /\ GpioCall("is_set_low", Dynamic_is_set_low(M0, gpio.pin), gpio.configured)

DynamicIntoInput ==
    /\ OnPin("Dynamic")
    /\ GpioCall("Dynamic::into_input", Dynamic_into_input(M0, gpio.pin), "none")

DynamicIntoOutput ==
    /\ OnPin("Dynamic")
    /\ \E state \in PinState :
        GpioCall("Dynamic::into_output", Dynamic_into_output(M0, gpio.pin, state), "none")

GpioOutputIntoInput ==
    /\ OnPin("gpio::Output")
    /\ GpioCall("gpio::Output::into_input", gpio_Output_into_input(M0, gpio.pin), "none")

GpioOutputSetLow ==
    /\ OnPin("gpio::Output")
    /\ GpioCall("gpio::Output::set_low", gpio_Output_set_low(M0, gpio.pin), "none")

GpioOutputSetHigh ==
    /\ OnPin("gpio::Output")
    /\ GpioCall("gpio::Output::set_high", gpio_Output_set_high(M0, gpio.pin), "none")

GpioInputIntoOutput ==
    /\ OnPin("gpio::Input")
    /\ \E state \in PinState :
        GpioCall("gpio::Input::into_output", gpio_Input_into_output(M0, gpio.pin, state),
                 "none")

\* the pin object goes out of scope: the registers stay as they are
DropPin ==
    /\ pc = "gpio"
    /\ gpio.pin.type # "none"
    /\ GpioCall("drop", Ret(M0, NoPin, Ok("()")), "none")

NextGpio ==
    \/ UnconfiguredNew \/ InputNew \/ OutputNew
    \/ DynamicNew \/ DynamicNewInput \/ DynamicNewOutput
    \/ GpioOutputNew \/ GpioInputNew
    \/ UnconfiguredIntoInput \/ UnconfiguredIntoOutput \/ UnconfiguredIntoDynamic
    \/ IntoUnconfigured
    \/ InputIntoOutput \/ InputIntoDynamic
    \/ OutputSetLow \/ OutputSetHigh \/ OutputIntoInput \/ OutputIntoDynamic
    \/ DynamicMode \/ DynamicConfigureAsInput \/ DynamicConfigureAsOutput
    \/ DynamicReadInputState \/ DynamicIsHigh \/ DynamicIsLow
    \/ DynamicSetOutputState \/ DynamicSetLow \/ DynamicSetHigh
    \/ DynamicOutputState \/ DynamicIsSetHigh \/ DynamicIsSetLow
    \/ DynamicIntoInput \/ DynamicIntoOutput
    \/ GpioOutputIntoInput \/ GpioOutputSetLow \/ GpioOutputSetHigh
    \/ GpioInputIntoOutput
    \/ DropPin

SpecGpio == Init /\ [][NextGpio]_vars

(***************************************************************************)
(* The PWM driver in use                                                   *)
(***************************************************************************)
\* the driver as a call finds it
P0 == [pwm EXCEPT !.written = {}]

PwmCall(op, idx, duty, after, r, period) ==
    /\ pwm' = [after EXCEPT !.op = op, !.idx = idx, !.duty = duty, !.result = r,
                            !.changed = { n \in 0..3 : after.cmpn[n] # pwm.cmpn[n] },
                            !.period = period]
    /\ pc' = "pwm"
    /\ UNCHANGED <<firmware, encryption, elf, result, entropy, prev, cli, host, input_len,
                   gpio, uart>>

PwmSetPeriod ==
    /\ pc \in {"idle", "pwm"}
    /\ ~pwm.channels
    /\ \E top \in U16Samples :
        PwmCall("set_period", 0, top, Pwm_set_period(P0, top), Ok("()"), top)

PwmSplit ==
    /\ pc \in {"idle", "pwm"}
    /\ ~pwm.channels
    /\ PwmCall("split", 0, 0, [P0 EXCEPT !.channels = TRUE], Ok("()"), pwm.period)

ChMaxDutyCycle ==
    /\ pc = "pwm"
    /\ pwm.channels
    /\ \E idx \in Channels :
        PwmCall("max_duty_cycle", idx, 0, P0, Ok(max_duty_cycle(P0)), pwm.period)

ChSetDutyCycle ==
    /\ pc = "pwm"
    /\ pwm.channels
    /\ \E idx \in Channels, duty \in U16Samples :
        PwmCall("set_duty_cycle", idx, duty, set_duty_cycle(P0, idx, duty), Ok("()"),
                pwm.period)

\* the three channels go out of scope: the driver can be used again
DropChannels ==
    /\ pc = "pwm"
    /\ pwm.channels
    /\ PwmCall("drop", 0, 0, [P0 EXCEPT !.channels = FALSE], Ok("()"), pwm.period)

NextPwm == PwmSetPeriod \/ PwmSplit \/ ChMaxDutyCycle \/ ChSetDutyCycle \/ DropChannels

SpecPwm == Init /\ [][NextPwm]_vars

(***************************************************************************)
(* The UART in use                                                         *)
(***************************************************************************)
\* the UART as a call finds it
U0 == [uart EXCEPT !.read = {}, !.written = {}]

UartCall(op, r) ==
    /\ uart' = [r.u EXCEPT !.op = op, !.result = r.ret]
    /\ pc' = "uart"
    /\ UNCHANGED <<firmware, encryption, elf, result, entropy, prev, cli, host, input_len,
                   gpio, pwm>>

UartNew ==
    /\ pc \in {"idle", "uart"}
    /\ ~uart.made
    /\ \E tx \in BOOLEAN, rx \in BOOLEAN :
        UartCall("new", UartRet(BlockingUart_new(tx, rx), Ok("()")))

UartRead ==
    /\ pc = "uart"
    /\ uart.made
    /\ \E len \in 0..MaxBuf, ready \in 0..MaxBuf :
        UartCall("read", BlockingUart_read(U0, len, ready))

UartWrite ==
    /\ pc = "uart"
    /\ uart.made
    /\ \E buf \in UartBufs, ready \in 0..MaxBuf :
        /\ Len(uart.sent) + Len(buf) <= MaxSent
        /\ UartCall("write", BlockingUart_write(U0, buf, ready))

UartFlush ==
    /\ pc = "uart"
    /\ uart.made
    /\ UartCall("flush", BlockingUart_flush(U0))

UartWriteAll ==
    /\ pc = "uart"
    /\ uart.made
    /\ \E buf \in UartBufs :
        /\ Len(uart.sent) + Len(buf) <= MaxSent
        /\ UartCall("write_all", BlockingUart_write_all(U0, buf))

UartReadReady ==
    /\ pc = "uart"
    /\ uart.made
    /\ \E data_ready \in BOOLEAN :
        UartCall("read_ready", BlockingUart_read_ready(U0, data_ready))

UartWriteReady ==
    /\ pc = "uart"
    /\ uart.made
    /\ \E ready \in BOOLEAN :
        UartCall("write_ready", BlockingUart_write_ready(U0, ready))

UartNbRead ==
    /\ pc = "uart"
    /\ uart.made
    /\ \E ready \in 0..1, byte \in UartBytes :
        UartCall("nb_read", BlockingUart_nb_read(U0, ready, byte))

UartNbWrite ==
    /\ pc = "uart"
    /\ uart.made
    /\ \E word \in UartBytes, ready \in 0..1 :
        /\ Len(uart.sent) + 1 <= MaxSent
        /\ UartCall("nb_write", BlockingUart_nb_write(U0, word, ready))

UartNbFlush ==
    /\ pc = "uart"
    /\ uart.made
    /\ \E transmitter_empty \in BOOLEAN :
        UartCall("nb_flush", BlockingUart_nb_flush(U0, transmitter_empty))

UartSplit ==
    /\ pc = "uart"
    /\ uart.made
    /\ UartCall("split", BlockingUart_split(U0))

\* the UART goes out of scope: the instance can be used again
DropUart ==
    /\ pc = "uart"
    /\ uart.made
    /\ UartCall("drop", UartRet([U0 EXCEPT !.made = FALSE], Ok("()")))

NextUart ==
    \/ UartNew \/ UartRead \/ UartWrite \/ UartFlush \/ UartWriteAll
    \/ UartReadReady \/ UartWriteReady \/ UartNbRead \/ UartNbWrite \/ UartNbFlush
    \/ UartSplit \/ DropUart

SpecUart == Init /\ [][NextUart]_vars

(***************************************************************************)
(* Reading an image back                                                   *)
(***************************************************************************)
RECURSIVE ByteAt(_, _)
\* the value of byte i (from 0) of s when it is a literal byte, -1 otherwise
ByteAt(s, i) ==
    IF s = <<>> THEN -1
    ELSE IF i < Head(s).n
         THEN IF Head(s).f = "fill" THEN Head(s).v ELSE -1
         ELSE ByteAt(Tail(s), i - Head(s).n)

\* the i32 stored little-endian in bytes at..at+3 of s
I32Le(s, at) ==
    LET b3 == ByteAt(s, at + 3)
    IN ByteAt(s, at) + 256 * ByteAt(s, at + 1) + 65536 * ByteAt(s, at + 2)
       + 16777216 * (IF b3 >= 128 THEN b3 - 256 ELSE b3)

\* the four bytes at..at+3 of s are literal bytes
IsI32Field(s, at) == \A k \in 0..3 : ByteAt(s, at + k) >= 0

\* the smallest multiple of 512 that is >= n
RoundUp512(n) == ((n + 511) \div 512) * 512

\* where the fields of an image start
HeaderAt == PREFIX_LEN + MAGIC_LEN
AuthAt == HeaderAt + 8
PayloadAt == AuthAt + 516

\* the version-prefixed payload of the current run
VersionedPayload == VERSION \o firmware

\* the payload field each scheme is to emit for the current run
ExpectedPayload ==
    CASE encryption = "None" -> VersionedPayload
      [] encryption = "Sm4" -> Sm4CbcPkcs7(VersionedPayload)
      [] encryption = "Aes" -> AesGcmCiphertext(INITIAL_AES_IV, VersionedPayload)
                               \o AesGcmTag(INITIAL_AES_IV, VersionedPayload)

Produced == pc = "gen_image" /\ result.kind = "Ok"

(***************************************************************************)
(* C1: whenever gen_image returns Ok(image), for any input and any of the  *)
(* three schemes, the length of the image is a multiple of 512.            *)
(***************************************************************************)
C1_LengthMultipleOf512 == Produced => ByteLen(result.val) % 512 = 0

\* an image whose unpadded length was no multiple of 512
C1_Witness ==
    /\ Produced
    /\ encryption = "Sm4"
    /\ ByteLen(firmware) = 300
    /\ ByteLen(result.val) % 512 = 0

(***************************************************************************)
(* C2: for each scheme the 32-bit length field equals the number of bytes  *)
(* of the payload field that follows the auth material: VERSION ++ input   *)
(* for None, the CBC ciphertext for Sm4, ciphertext plus tag for Aes.      *)
(***************************************************************************)
C2_LengthFieldIsPayloadLength ==
    Produced =>
        LET len == I32Le(result.val, HeaderAt)
        IN /\ IsI32Field(result.val, HeaderAt)
           /\ len = ByteLen(ExpectedPayload)
           /\ PayloadAt + len <= ByteLen(result.val)
           /\ Slice(result.val, PayloadAt, PayloadAt + len) = ExpectedPayload

\* an Aes image: the payload is the ciphertext and the 16-byte tag
C2_Witness ==
    /\ Produced
    /\ encryption = "Aes"
    /\ ByteLen(firmware) = 200
    /\ I32Le(result.val, HeaderAt) = 220

(***************************************************************************)
(* C3: every image has the canonical layout, in this order: 0x100000 zero  *)
(* bytes; the ASCII magic marker; the length as i32 little-endian; the     *)
(* scheme id as i32 little-endian (0 None, 1 Sm4, 2 Aes); the auth         *)
(* material; the payload; then only zero bytes up to the end.  The magic   *)
(* marker is the 4 bytes of MAGIC, not 8 bytes.                            *)
(***************************************************************************)
SchemeId == CASE encryption = "None" -> 0 [] encryption = "Sm4" -> 1 [] encryption = "Aes" -> 2

\* the layout of img with a magic marker of m bytes and 516 bytes of auth material
LayoutWithMagic(img, m) ==
    LET header == PREFIX_LEN + m
        payload == header + 8 + 516
        len == I32Le(img, header)
    IN /\ Slice(img, 0, PREFIX_LEN) = <<Fill(0, PREFIX_LEN)>>
       /\ Slice(img, PREFIX_LEN, header) = <<Sym("MAGIC", 0, m, <<>>)>>
       /\ IsI32Field(img, header)
       /\ len = ByteLen(ExpectedPayload)
       /\ IsI32Field(img, header + 4)
       /\ I32Le(img, header + 4) = SchemeId
       /\ payload + len <= ByteLen(img)
       /\ Slice(img, payload, payload + len) = ExpectedPayload
       /\ AllZero(Slice(img, payload + len, ByteLen(img)))

C3_CanonicalLayout == Produced => LayoutWithMagic(result.val, 4)

\* the reading with a magic marker of 8 bytes: the 8 bytes after the zero prefix are the magic marker
C3_Original == Produced => LayoutWithMagic(result.val, 8)

\* an Sm4 image of a 17-byte input
C3_Witness ==
    /\ Produced
    /\ encryption = "Sm4"
    /\ ByteLen(firmware) = 17
    /\ I32Le(result.val, HeaderAt) = 32
    /\ I32Le(result.val, HeaderAt + 4) = 1

(***************************************************************************)
(* C4: for scheme None the 32 bytes that follow the scheme-id field are    *)
(* SHA-256(VERSION ++ input): the digest of the version-prefixed payload   *)
(* and of nothing else.                                                    *)
(***************************************************************************)
C4_DigestOfVersionedPayload ==
    Produced /\ encryption = "None" =>
        Slice(result.val, AuthAt, AuthAt + 32) = Sha256(VersionedPayload)

\* a None image of a non-empty input
C4_Witness ==
    /\ Produced
    /\ encryption = "None"
    /\ ByteLen(firmware) = 6
    /\ Slice(result.val, AuthAt, AuthAt + 32) = Sha256(VERSION \o firmware)

(***************************************************************************)
(* C5: for scheme None the auth material is exactly 516 bytes, the 32-byte *)
(* digest followed by 484 zero bytes, and the payload that follows is      *)
(* VERSION ++ input byte for byte.                                         *)
(***************************************************************************)
C5_NoneAuthMaterialAndPayload ==
    Produced /\ encryption = "None" =>
        LET img == result.val
            digest == Slice(img, AuthAt, AuthAt + 32)
        IN /\ Len(digest) = 1 /\ digest[1].f = "sha256" /\ digest[1].n = 32
           /\ Slice(img, AuthAt + 32, AuthAt + 516) = <<Fill(0, 484)>>
           /\ Slice(img, AuthAt + 516, AuthAt + 516 + ByteLen(VersionedPayload))
                = VersionedPayload

\* a None image whose input starts with non-zero bytes
C5_Witness ==
    /\ Produced
    /\ encryption = "None"
    /\ ByteLen(firmware) = 10
    /\ ByteAt(firmware, 0) = 19
    /\ ByteAt(result.val, AuthAt + 516 + VERSION_LEN) = 19

(***************************************************************************)
(* C6: for scheme None and an input of N bytes the image has               *)
(* 0x100000 + 4 + 8 + 32 + 484 + (VERSION_LEN + N) bytes, rounded up to    *)
(* the next multiple of 512 (the magic marker counts 4 bytes, not 8).      *)
(***************************************************************************)
C6_NoneImageLength ==
    Produced /\ encryption = "None" =>
        ByteLen(result.val) =
            RoundUp512(PREFIX_LEN + 4 + 8 + 32 + 484 + (VERSION_LEN + ByteLen(firmware)))

\* the length with a magic marker of 8 bytes: 0x100000 + 8 + 8 + 32 + 484 + (VERSION_LEN + N)
C6_Original ==
    Produced /\ encryption = "None" =>
        ByteLen(result.val) =
            RoundUp512(PREFIX_LEN + 8 + 8 + 32 + 484 + (VERSION_LEN + ByteLen(firmware)))

\* an input whose unpadded image is already a multiple of 512
C6_Witness ==
    /\ Produced
    /\ encryption = "None"
    /\ ByteLen(firmware) = 492
    /\ ByteLen(result.val) = PREFIX_LEN + 1024

(***************************************************************************)
(* C7: for every executable E and scheme S, elf_to_image_bytes(E, S) is    *)
(* byte-identical to gen_image(elf_to_bin_bytes(E), S), and it fails       *)
(* exactly when one of the two steps fails, with that step's error.        *)
(***************************************************************************)
C7_ElfToImageIsComposition ==
    pc = "elf_to_image_bytes" =>
        LET bin == elf_to_bin_bytes(elf)
        IN IF bin.kind # "Ok" THEN result = bin
           ELSE result = gen_image(bin.val, encryption)

\* an executable of three sections turned into an Sm4 image
C7_Witness ==
    /\ pc = "elf_to_image_bytes"
    /\ encryption = "Sm4"
    /\ elf.valid
    /\ Len(elf.sections) = 3
    /\ result.kind = "Ok"
    /\ elf_to_bin_bytes(elf).kind = "Ok"
    /\ ByteLen(elf_to_bin_bytes(elf).val) = 12

NotZeroInitialized(s) == s.kind # "UninitializedData"

WithoutZeroInitialized(e) == [e EXCEPT !.sections = SelectSeq(@, NotZeroInitialized)]

\* the sections that are loadable and have file contents
FileBacked(e) ==
    { i \in DOMAIN e.sections :
        LET s == e.sections[i]
        IN s.alloc /\ s.kind # "UninitializedData" /\ s.range_ok
           /\ s.off + s.size <= ByteLen(FILE) }

MinOffset(e) ==
    LET i == CHOOSE i \in FileBacked(e) :
                 \A j \in FileBacked(e) : e.sections[i].off <= e.sections[j].off
    IN e.sections[i].off

Loadable(e) ==
    { i \in DOMAIN e.sections : e.sections[i].alloc /\ e.sections[i].kind # "UninitializedData" }

\* the loadable sections all have file contents, and each but the first
\* starts where another one ends
ContiguousOffsets(e) ==
    LET sec == e.sections
    IN /\ Loadable(e) # {}
       /\ Loadable(e) = FileBacked(e)
       /\ \A i, j \in Loadable(e) : i # j => sec[i].off # sec[j].off
       /\ \A i \in Loadable(e) :
            \/ sec[i].off = MinOffset(e)
            \/ \E j \in Loadable(e) : sec[j].off + sec[j].size = sec[i].off

RECURSIVE ConcatAscending(_, _)
\* the contents of the sections I of e, by ascending file offset
ConcatAscending(e, I) ==
    IF I = {} THEN <<>>
    ELSE LET i == CHOOSE i \in I : \A j \in I : e.sections[i].off <= e.sections[j].off
             s == e.sections[i]
         IN Cat(Slice(FILE, s.off, s.off + s.size), ConcatAscending(e, I \ {i}))

RECURSIVE SumOfSizes(_, _)
SumOfSizes(e, I) ==
    IF I = {} THEN 0
    ELSE LET i == CHOOSE i \in I : TRUE
         IN e.sections[i].size + SumOfSizes(e, I \ {i})

ScenarioA ==
    << Section(TRUE, "Text", 4, 4, 0, TRUE),
       Section(TRUE, "Data", 8, 4, 32768, TRUE),
       Section(TRUE, "UninitializedData", 12, 8, 0, TRUE) >>

StepsOf(step) == { i \in DOMAIN cli.log : cli.log[i].step = step }

\* the steps a command takes before it writes
StepsBeforeWrite(command) ==
    CASE command = "GenImage" -> {"read", "generate"}
      [] command = "Elf2Bin" -> {"read", "flatten"}
      [] command = "Elf2Img" -> {"read", "flatten", "generate"}

C11_WriteOnceAfterSuccess ==
    cli.command # "none" =>
        LET log == cli.log
        IN /\ Len(cli.writes) <= 1
           /\ Len(cli.writes) = Cardinality(StepsOf("write"))
           /\ \A step \in {"read", "flatten", "generate", "write"} :
                Cardinality(StepsOf(step)) <= 1
           /\ \A w \in StepsOf("write") :
                /\ \A j \in 1..(w - 1) : log[j].kind = "Ok"
                /\ \A step \in StepsBeforeWrite(cli.command) :
                     \E j \in 1..(w - 1) : log[j].step = step
           /\ \A i \in DOMAIN log : log[i].kind # "Ok" => i = Len(log)
           /\ \A i \in DOMAIN log :
                log[i].kind # "Ok" /\ log[i].step # "write" => cli.writes = <<>>
           /\ pc = "cli_exit" =>
                /\ cli.exit_code = 0 <=> \A i \in DOMAIN log : log[i].kind = "Ok"
                /\ \A i \in DOMAIN log :
                     log[i].kind = "Err" =>
                         cli.exit_code = 1 /\ cli.stderr = <<log[i].err>>
                /\ cli.exit_code = 0 => Len(cli.writes) = 1 /\ cli.writes[1].ok

\* elf2img on a file that is no executable: the run ends after the second
\* step, with the parse error, and nothing was written
C11_Witness ==
    /\ pc = "cli_exit"
    /\ cli.command = "Elf2Img"
    /\ Len(cli.log) = 2
    /\ cli.log[1] = [step |-> "read", kind |-> "Ok", err |-> "none"]
    /\ cli.log[2] = [step |-> "flatten", kind |-> "Err", err |-> "ElfParseError"]
    /\ cli.writes = <<>>
    /\ cli.stderr = <<"ElfParseError">>
    /\ cli.exit_code = 1

(***************************************************************************)
(* C12: a selected (ALLOC, not zero-initialized) section whose file range  *)
(* or data cannot be resolved is skipped and never makes elf_to_bin_bytes  *)
(* fail or abort: for a well-formed executable the call returns Ok with    *)
(* the bytes of the remaining sections, at selection, at both sorts by     *)
(* file offset and at copying.                                             *)
(***************************************************************************)
\* the file range and the data of s resolve
Resolves(s) == compressed_file_range(s).kind = "Ok" /\ section_data(s).kind = "Ok"

\* s is not a selected section that fails to resolve
NotUnresolved(s) == ~(is_loadable(s) /\ ~Resolves(s))

WithoutUnresolved(e) == [e EXCEPT !.sections = SelectSeq(@, NotUnresolved)]

C12_UnresolvedSkippedNotFailed ==
    pc = "elf_to_bin_bytes" /\ elf.valid =>
        /\ result.kind = "Ok"
        /\ result = elf_to_bin_bytes(WithoutUnresolved(elf))

\* a single selected section whose file range does not resolve: it is skipped
C12_Witness ==
    /\ pc = "elf_to_bin_bytes"
    /\ elf.valid
    /\ elf.sections = << Section(TRUE, "Data", 8, 4, 0, FALSE) >>
    /\ result = Ok(<<>>)

(***************************************************************************)
(* C13: when no section of a well-formed executable qualifies (there is no *)
(* ALLOC section that is not zero-initialized, or process_sections skips   *)
(* every one of them), elf_to_bin_bytes returns Ok with an empty buffer    *)
(* and not an error.                                                       *)
(***************************************************************************)
\* elf_to_bin_bytes returned: it did not abort in a sort
Returned == result.kind \in {"Ok", "Err"}

C14_MalformedGivesParseError ==
    StepsOf("flatten") # {} /\ ~elf.valid =>
        /\ \A i \in StepsOf("flatten") :
             cli.log[i] = [step |-> "flatten", kind |-> "Err", err |-> "ElfParseError"]
        /\ StepsOf("generate") = {}
        /\ cli.writes = <<>>
        /\ firmware = <<>>
        /\ elf_to_bin_bytes(elf) = Err("ElfParseError")
        /\ \A enc \in EncryptionType : elf_to_image_bytes(elf, enc) = Err("ElfParseError")
        /\ pc = "cli_exit" => cli.exit_code = 1 /\ cli.stderr = <<"ElfParseError">>

\* elf2bin on a malformed file whose section table, had it been read, holds a
\* section without file range next to .text
C14_Witness ==
    /\ pc = "cli_exit"
    /\ cli.command = "Elf2Bin"
    /\ ~elf.valid
    /\ Len(elf.sections) = 2
    /\ StepsOf("flatten") = {2}
    /\ result = Err("ElfParseError")
    /\ cli.writes = <<>>

(***************************************************************************)
(* C16: for each scheme the auth material between the scheme-id field and  *)
(* the payload has a fixed size, 516 bytes, whatever the input: it begins  *)
(* right after the scheme id with the scheme's first element and ends with *)
(* the scheme's last element complete, and the payload occupies exactly    *)
(* `length` bytes from the one offset that follows, so its end is found    *)
(* from `length` alone.                                                    *)
(***************************************************************************)
\* the run of s that holds byte i (from 0)
RunAt(s, i) ==
    LET k == CHOOSE k \in 1..Len(s) :
                 /\ ByteLen(SubSeq(s, 1, k - 1)) <= i
                 /\ i < ByteLen(SubSeq(s, 1, k))
    IN s[k]

\* the auth material of img starts with the first element of the scheme and
\* byte PayloadAt - 1 is the last byte of the last one
AuthMaterialBounds(img, enc) ==
    LET first == RunAt(img, AuthAt)
        last == RunAt(Slice(img, AuthAt, PayloadAt), 515)
    IN CASE enc = "None" ->
              /\ first.f = "sha256" /\ first.at = 0
              /\ Slice(img, AuthAt + 32, PayloadAt) = <<Fill(0, 484)>>
         [] enc = "Sm4" ->
              /\ IsI32Field(img, AuthAt) /\ I32Le(img, AuthAt) = ID_STR_LEN
              /\ last.f = "sm2_s" /\ last.at = 0 /\ last.n = 32
         [] enc = "Aes" ->
              /\ first.f = "RSA_N" /\ first.at = 0
              /\ last.f = "rsa_sig" /\ last.at = 0 /\ last.n = 256

C16_AuthMaterialFixedSize ==
    Produced =>
        LET img == result.val
            len == I32Le(img, HeaderAt)
        IN /\ PayloadAt = PREFIX_LEN + MAGIC_LEN + 8 + 516
           /\ AuthMaterialBounds(img, encryption)
           /\ len = ByteLen(ExpectedPayload)
           /\ PayloadAt + len <= ByteLen(img)
           /\ Slice(img, PayloadAt, PayloadAt + len) = ExpectedPayload
           /\ AllZero(Slice(img, PayloadAt + len, ByteLen(img)))
           /\ ByteLen(img) - (PayloadAt + len) < 512

\* two Sm4 images of inputs of different lengths: the payload starts at the same offset
C16_Witness ==
    /\ Produced
    /\ encryption = "Sm4"
    /\ ByteLen(firmware) = 50
    /\ RunAt(result.val, PayloadAt).f = "sm4_cbc"
    /\ RunAt(result.val, PayloadAt).at = 0
    /\ RunAt(result.val, PayloadAt - 1).f = "sm2_s"
    /\ gen_image(<<>>, "Sm4").kind = "Ok"
    /\ RunAt(gen_image(<<>>, "Sm4").val, PayloadAt).f = "sm4_cbc"
    /\ RunAt(gen_image(<<>>, "Sm4").val, PayloadAt).at = 0

(***************************************************************************)
(* C17: output path resolution: with --output the result is written        *)
(* exactly there; without it, to the input path with only its last         *)
(* extension replaced by img (gen-image, elf2img) or bin (elf2bin), an     *)
(* input without extension getting the extension appended; the resolved    *)
(* path is the one printed on success.                                     *)
(***************************************************************************)
\* path is base.ext: a base that is not empty and does not end with a
\* separator, then a dot, then an extension without dot or separator
SplitsAsBaseDotExt(path, base) ==
    /\ Len(base) < Len(path)
    /\ SubSeq(path, 1, Len(base)) = base
    /\ path[Len(base) + 1] = "."
    /\ \A k \in (Len(base) + 2)..Len(path) : path[k] \notin {".", "/"}
    /\ base # <<>>
    /\ base[Len(base)] # "/"

\* the input path with its last extension replaced by ext, or with ext
\* appended when it has none
ExtensionReplaced(path, ext) ==
    IF \E n \in 1..Len(path) : SplitsAsBaseDotExt(path, SubSeq(path, 1, n))
    THEN LET n == CHOOSE n \in 1..Len(path) : SplitsAsBaseDotExt(path, SubSeq(path, 1, n))
         IN SubSeq(path, 1, n) \o <<".">> \o ext
    ELSE path \o <<".">> \o ext

C17_OutputPathResolution ==
    pc = "cli_exit" /\ cli.exit_code = 0 =>
        LET expected ==
                IF cli.output.some THEN cli.output.path
                ELSE ExtensionReplaced(cli.input,
                         IF cli.command = "Elf2Bin" THEN <<"b", "i", "n">>
                                                    ELSE <<"i", "m", "g">>)
        IN /\ Len(cli.writes) = 1
           /\ cli.writes[1].path = expected
           /\ cli.stdout = <<expected>>

\* elf2bin of d.d/f.f without --output: written to d.d/f.bin, which is printed
C17_Witness ==
    /\ pc = "cli_exit"
    /\ cli.exit_code = 0
    /\ cli.command = "Elf2Bin"
    /\ ~cli.output.some
    /\ cli.input = <<"d", ".", "d", "/", "f", ".", "f">>
    /\ cli.writes[1].path = <<"d", ".", "d", "/", "f", ".", "b", "i", "n">>
    /\ cli.stdout = << <<"d", ".", "d", "/", "f", ".", "b", "i", "n">> >>

(***************************************************************************)
(* C18: when the file ranges of selected sections overlap, every output    *)
(* byte in the overlap is the byte of the section that comes later in      *)
(* ascending file-offset order (for equal offsets the one later in the     *)
(* section table), and bytes of the earlier sections outside the overlap   *)
(* are kept: each covered output byte is the byte of the last section, in  *)
(* that order, whose range covers it.                                      *)
(***************************************************************************)
\* section i comes before section j in ascending file-offset order, ties in table order
Before(e, i, j) ==
    \/ e.sections[i].off < e.sections[j].off
    \/ e.sections[i].off = e.sections[j].off /\ i < j

\* the file-backed sections whose range covers file offset p
Covering(e, p) ==
    { i \in FileBacked(e) : e.sections[i].off <= p /\ p < e.sections[i].off + e.sections[i].size }

\* the last section in sort order that covers p
LastCovering(e, p) ==
    CHOOSE i \in Covering(e, p) : \A j \in Covering(e, p) : j = i \/ Before(e, j, i)

\* two file-backed sections of e share a byte of the file
Overlapping(e) ==
    \E i, j \in FileBacked(e) :
        /\ i # j
        /\ e.sections[i].off < e.sections[j].off + e.sections[j].size
        /\ e.sections[j].off < e.sections[i].off + e.sections[i].size

\* the positions of the file from the lowest offset to the highest end
Span(e) ==
    { p \in 0..ByteLen(FILE) :
        /\ \E i \in FileBacked(e) : e.sections[i].off <= p
        /\ \E i \in FileBacked(e) : p < e.sections[i].off + e.sections[i].size }

\* the conversion aborted in a sort, before any section was laid out
AbortedInSort == result = Panic("Section file range not found!")

MaxEndOffset(e) ==
    LET i == CHOOSE i \in FileBacked(e) :
                 \A j \in FileBacked(e) :
                     e.sections[j].off + e.sections[j].size
                         <= e.sections[i].off + e.sections[i].size
    IN e.sections[i].off + e.sections[i].size

UnpaddedLen == PayloadAt + ByteLen(ExpectedPayload)

C20_PaddingMinimal ==
    Produced =>
        LET n == UnpaddedLen
            pad == ByteLen(result.val) - n
        IN /\ pad = (512 - (n % 512)) % 512
           /\ pad >= 0 /\ pad < 512
           /\ n % 512 = 0 => pad = 0
           /\ AllZero(Slice(result.val, n, ByteLen(result.val)))
           /\ ByteLen(result.val) % 512 = 0
           /\ \A m \in n..ByteLen(result.val) : m % 512 = 0 => m = ByteLen(result.val)

\* an Sm4 image whose length before padding is already a multiple of 512
C20_Witness ==
    /\ Produced
    /\ encryption = "Sm4"
    /\ ByteLen(firmware) = 480
    /\ UnpaddedLen % 512 = 0
    /\ ByteLen(result.val) = UnpaddedLen

(***************************************************************************)
(* C21: for scheme Sm4 and a version-prefixed payload of L bytes, the      *)
(* ciphertext emitted as payload and the length field have                 *)
(* 16 * (floor(L / 16) + 1) bytes: a multiple of 16, greater than L, at    *)
(* most L + 16, a whole padding block being added when L is a multiple of  *)
(* 16.                                                                     *)
(***************************************************************************)
C21_Sm4PayloadLength ==
    Produced /\ encryption = "Sm4" =>
        LET L == VERSION_LEN + ByteLen(firmware)
            len == I32Le(result.val, HeaderAt)
            payload == RunAt(result.val, PayloadAt)
        IN /\ IsI32Field(result.val, HeaderAt)
           /\ len = 16 * ((L \div 16) + 1)
           /\ len % 16 = 0
           /\ len > L
           /\ len <= L + 16
           /\ L % 16 = 0 => len = L + 16
           /\ payload.f = "sm4_cbc" /\ payload.at = 0 /\ payload.n = len
           /\ payload.of = VERSION \o firmware

\* a version-prefixed payload of 16 bytes: two blocks of ciphertext
C21_Witness ==
    /\ Produced
    /\ encryption = "Sm4"
    /\ ByteLen(firmware) = 12
    /\ I32Le(result.val, HeaderAt) = 32
    /\ RunAt(result.val, PayloadAt).n = 32

(***************************************************************************)
(* C22: for scheme Aes and a version-prefixed payload of L bytes, the      *)
(* payload is the L-byte ciphertext followed by the 16-byte authentication *)
(* tag, the length field is L + 16, and the RSA signature is computed over *)
(* the 16-byte tag that ends the payload, not over the ciphertext.         *)
(***************************************************************************)
C22_AesPayloadAndSignedTag ==
    Produced /\ encryption = "Aes" =>
        LET img == result.val
            L == VERSION_LEN + ByteLen(firmware)
            len == I32Le(img, HeaderAt)
            tag == Slice(img, PayloadAt + L, PayloadAt + L + 16)
            signature == Slice(img, AuthAt + 260, AuthAt + 516)
        IN /\ IsI32Field(img, HeaderAt)
           /\ len = L + 16
           /\ Slice(img, PayloadAt, PayloadAt + L)
                = AesGcmCiphertext(INITIAL_AES_IV, VERSION \o firmware)
           /\ tag = AesGcmTag(INITIAL_AES_IV, VERSION \o firmware)
           /\ Len(signature) = 1
           /\ signature[1].f = "rsa_sig" /\ signature[1].at = 0 /\ signature[1].n = 256
           /\ signature[1].of = tag

\* an Aes image of a 30-byte input: 34 bytes of ciphertext, then the tag
C22_Witness ==
    /\ Produced
    /\ encryption = "Aes"
    /\ ByteLen(firmware) = 30
    /\ I32Le(result.val, HeaderAt) = 50
    /\ RunAt(result.val, PayloadAt + 34).f = "aes_gcm_tag"
    /\ RunAt(result.val, AuthAt + 260).of = AesGcmTag(INITIAL_AES_IV, VERSION \o firmware)

(***************************************************************************)
(* C23: for every input and every scheme, gen_image(input, s) equals       *)
(* 0x100000 zero bytes, followed by gen_firmware(input, s), followed by    *)
(* zero padding to the next multiple of 512.                               *)
(***************************************************************************)
FirmwareProduced == pc = "gen_firmware" /\ result.kind = "Ok"

\* the package of the current run placed in an image: after the zero area,
\* zero-padded to a whole number of sectors
FirmwareAsImage ==
    LET body == Cat(Zeros(PREFIX_LEN), result.val)
    IN Cat(body, Zeros(RoundUp512(ByteLen(body)) - ByteLen(body)))

C23_ImageIsPaddedFirmware ==
    FirmwareProduced => gen_image(firmware, encryption) = Ok(FirmwareAsImage)

\* a package built without encryption on a big-endian host: it differs from
\* the image in the length field only
C23_Witness ==
    /\ FirmwareProduced
    /\ encryption = "None"
    /\ host = "big"
    /\ ByteLen(firmware) = 30
    /\ gen_image(firmware, encryption).kind = "Ok"
    /\ gen_image(firmware, encryption).val # FirmwareAsImage
    /\ Slice(gen_image(firmware, encryption).val, HeaderAt + 4,
             ByteLen(FirmwareAsImage))
         = Slice(FirmwareAsImage, HeaderAt + 4, ByteLen(FirmwareAsImage))

(***************************************************************************)
(* C24: gen_firmware with scheme None stores the data length as 4 bytes in *)
(* little-endian order, whatever the byte order of the host that runs the  *)
(* tool.                                                                   *)
(***************************************************************************)
C24_NoneLengthLittleEndian ==
    FirmwareProduced /\ encryption = "None" =>
        /\ IsI32Field(result.val, MAGIC_LEN)
        /\ I32Le(result.val, MAGIC_LEN) = VERSION_LEN + ByteLen(firmware)

\* on a big-endian host a 34-byte payload is stored as 00 00 00 22
C24_Witness ==
    /\ FirmwareProduced
    /\ encryption = "None"
    /\ host = "big"
    /\ ByteLen(firmware) = 30
    /\ ByteAt(result.val, MAGIC_LEN) = 0
    /\ ByteAt(result.val, MAGIC_LEN + 3) = 34
    /\ I32Le(result.val, MAGIC_LEN) = 34 * 16777216

(***************************************************************************)
(* C25: parsing an encryption type is case-insensitive and total: any      *)
(* upper/lower-case spelling of 'none', 'sm4', 'aes' yields None, Sm4, Aes *)
(* respectively, every other string yields InvalidEncryptionType, and when *)
(* no encryption is given the scheme used is None.                         *)
(***************************************************************************)
\* the two cases of a character
Cases(c) ==
    CASE c = "n" -> {"n", "N"} [] c = "o" -> {"o", "O"} [] c = "e" -> {"e", "E"}
      [] c = "s" -> {"s", "S"} [] c = "m" -> {"m", "M"} [] c = "a" -> {"a", "A"}
      [] OTHER -> {c}

\* s spells the lower-case word w in some mix of cases
Spells(s, w) == Len(s) = Len(w) /\ \A i \in 1..Len(w) : s[i] \in Cases(w[i])

C25_ParseCaseInsensitiveTotal ==
    pc = "from_str" =>
        LET arg == cli.encryption_arg
        IN IF ~arg.some THEN encryption = "None"
           ELSE /\ result.kind \in {"Ok", "Err"}
                /\ Spells(arg.path, <<"n", "o", "n", "e">>) <=> result = Ok("None")
                /\ Spells(arg.path, <<"s", "m", "4">>) <=> result = Ok("Sm4")
                /\ Spells(arg.path, <<"a", "e", "s">>) <=> result = Ok("Aes")
                /\ result.kind = "Err" => result = Err("InvalidEncryptionType")
                /\ result.kind = "Ok" => encryption = result.val

\* a spelling in mixed case is accepted
C25_Witness ==
    /\ pc = "from_str"
    /\ cli.encryption_arg = Some(<<"S", "m", "4">>)
    /\ result = Ok("Sm4")
    /\ encryption = "Sm4"

(***************************************************************************)
(* C26: gen_image never rejects an input because of its size: the length   *)
(* field is the payload byte length cast to i32, exact for payload lengths *)
(* below 2^31, and for a payload of 2^31 bytes or more the length modulo   *)
(* 2^32 read as a signed 32-bit integer, no longer equal to the payload    *)
(* length, gen_image still returning Ok.                                   *)
(***************************************************************************)
LargeRun == pc = "gen_image_large"

\* the payload the scheme of the current run emits for an input of input_len bytes
LargePayload ==
    CASE encryption = "None" -> WAdd(input_len, VERSION_LEN)
      [] encryption = "Sm4" ->
            LET L == WAdd(input_len, VERSION_LEN) IN WSub(WAdd(L, 16), L.lo % 16)
      [] encryption = "Aes" -> WAdd(input_len, VERSION_LEN + 16)

\* the low four bytes of a length, least significant first
Low32Le(w) ==
    FromBytes(<<w.lo % 256, w.lo \div 256, w.hi % 256, (w.hi \div 256) % 256>>)

\* the length field is the cast of the payload length: its low 32 bits, which
\* read as a signed integer give the length itself exactly when it is below 2^31
LengthFieldIsCast ==
    LET field == result.val.length
        value == I32Le(field, 0)
    IN /\ result.val.payload = LargePayload
       /\ IsI32Field(field, 0) /\ ByteLen(field) = 4
       /\ field = Low32Le(LargePayload)
       /\ LargePayload.hi < 32768 => value = (LargePayload.hi * 65536) + LargePayload.lo
       /\ LargePayload.hi >= 32768 =>
             ~(value >= 0 /\ LargePayload = W(value \div 65536, value % 65536))

\* the statement for every size and scheme
C26_NeverRejectsForSize ==
    LargeRun => result.kind = "Ok" /\ LengthFieldIsCast

\* the statement within the limit of AES-GCM: with scheme Aes a
\* version-prefixed input of more than 2^36 bytes is refused with AesError,
\* every other input of any size is accepted
C26_RejectsOnlyBeyondAesLimit ==
    LargeRun =>
        IF encryption = "Aes" /\ WGreater(WAdd(input_len, VERSION_LEN), W(1048576, 0))
        THEN result = Err("AesError")
        ELSE result.kind = "Ok" /\ LengthFieldIsCast

\* a payload of exactly 2^31 bytes is accepted and stored as -2^31
C26_Witness ==
    /\ LargeRun
    /\ encryption = "None"
    /\ input_len = W(32767, 65532)
    /\ result.kind = "Ok"
    /\ result.val.payload = W(32768, 0)
    /\ I32Le(result.val.length, 0) = -I32_MAX - 1

(***************************************************************************)
(* C27: Dynamic GPIO pin: after any sequence of configure_as_input /       *)
(* configure_as_output calls, mode() is the mode of the last configure     *)
(* call (Unconfigured if none since Dynamic::new); read_input_state,       *)
(* is_high and is_low succeed only when mode is Input, set_output_state,   *)
(* set_high, set_low, output_state, is_set_high and is_set_low succeed     *)
(* only when mode is Output, and in every other mode they return           *)
(* IncompatibleMode without writing any GPIO register.                     *)
(***************************************************************************)
InputCalls == {"read_input_state", "is_high", "is_low"}

OutputCalls ==
    {"set_output_state", "set_high", "set_low", "output_state", "is_set_high", "is_set_low"}

\* the last call was made on a Dynamic pin that came from Dynamic::new
OnDynamic == pc = "gpio" /\ gpio.pin.type = "Dynamic" /\ gpio.configured # "none"

\* the call succeeded exactly in the given mode, and failed otherwise with
\* IncompatibleMode, no register written
OnlyInMode(mode) ==
    /\ gpio.result.kind = "Ok" <=> gpio.configured = mode
    /\ gpio.configured # mode =>
          gpio.result = Err("IncompatibleMode") /\ gpio.written = {} /\ gpio.changed = {}

C27_DynamicModeChecked ==
    OnDynamic =>
        /\ gpio.configured \in PinMode
        /\ gpio.pin.mode = gpio.configured
        /\ gpio.op = "mode" => gpio.result = Ok(gpio.configured)
        /\ gpio.op \in InputCalls => OnlyInMode("Input")
        /\ gpio.op \in OutputCalls => OnlyInMode("Output")

\* set_high is refused on a pin last configured as input, on port B, whose
\* data bit an earlier pin left set
C27_Witness ==
    /\ OnDynamic
    /\ gpio.op = "set_high"
    /\ gpio.configured = "Input"
    /\ gpio.pin.port = "B"
    /\ gpio.pin.pin_num = 31
    /\ gpio.regs.swportb_ddr = {}
    /\ gpio.regs.swportb_dr = {0}
    /\ gpio.result = Err("IncompatibleMode")
    /\ gpio.written = {}

(***************************************************************************)
(* C28: every GPIO pin operation that configures direction or sets the     *)
(* output state (constructors, into_input / into_output conversions,       *)
(* set_low / set_high) changes only bit pin_num of the direction and data  *)
(* registers of the pin's own port: for a port-B pin the port-A registers  *)
(* are left unchanged, for a port-A pin the port-B registers are left      *)
(* unchanged, and the bits of all other pins are left unchanged.           *)
(***************************************************************************)
\* the direction and data bits of a pin
OwnBits(pin) ==
    IF pin.port = "A"
    THEN { <<"swporta_ddr", pin.pin_num>>, <<"swporta_dr", pin.pin_num>> }
    ELSE { <<"swportb_ddr", pin.pin_num>>, <<"swportb_dr", pin.pin_num>> }

\* the last call was made on, or made, a pin
OnSomePin == pc = "gpio" /\ gpio.pin.type # "none"

C28_OnlyOwnBitsChange ==
    OnSomePin =>
        /\ gpio.changed \subseteq OwnBits(gpio.pin)
        /\ \A b \in gpio.changed :
              /\ b[2] = gpio.pin.pin_num
              /\ gpio.pin.port = "B" => b[1] \notin {"swporta_ddr", "swporta_dr"}
              /\ gpio.pin.port = "A" => b[1] \notin {"swportb_ddr", "swportb_dr"}

\* Output::new of gpio/output.rs for pin 31 of port B, high: bit 31 of both
\* port-A registers is set, the port-B registers are as before
C28_Witness ==
    /\ OnSomePin
    /\ gpio.op = "gpio::Output::new"
    /\ gpio.pin.port = "B"
    /\ gpio.pin.pin_num = 31
    /\ gpio.changed = { <<"swporta_ddr", 31>>, <<"swporta_dr", 31>> }
    /\ gpio.regs.swportb_ddr = {}

(***************************************************************************)
(* C29: PWM channels 1 to 3: max_duty_cycle() returns the value last       *)
(* passed to Pwm::set_period (0 if never set); set_duty_cycle(duty) clamps *)
(* duty to that top and writes comparator threshold top - min(duty, top)   *)
(* to the channel's own comparator only, so the threshold is always within *)
(* [0, top], the subtraction never underflows, and comparator 0 (the       *)
(* period) and the other channels' comparators are unchanged.              *)
(***************************************************************************)
C29_DutyClampedOwnComparator ==
    pc = "pwm" =>
        /\ pwm.op = "max_duty_cycle" => pwm.result = Ok(pwm.period)
        /\ pwm.op = "set_duty_cycle" =>
              LET top == pwm.period
                  threshold == pwm.cmpn[pwm.idx]
              IN /\ pwm.idx \in 1..3
                 /\ pwm.result = Ok("()")
                 /\ threshold = top - (IF pwm.duty < top THEN pwm.duty ELSE top)
                 /\ threshold >= 0 /\ threshold <= top
                 /\ pwm.written = {pwm.idx}
                 /\ pwm.changed \subseteq {pwm.idx}
                 /\ pwm.cmpn[0] = top

\* a duty above the period on channel 2 is clamped: the threshold is 0, and
\* the comparators of channels 1 and 3 keep what was set before
C29_Witness ==
    /\ pc = "pwm"
    /\ pwm.op = "set_duty_cycle"
    /\ pwm.idx = 2
    /\ pwm.period = 1000
    /\ pwm.duty = 65535
    /\ pwm.cmpn[0] = 1000
    /\ pwm.cmpn[1] = 999
    /\ pwm.cmpn[2] = 0
    /\ pwm.cmpn[3] = 65534
    /\ pwm.changed = {2}

(***************************************************************************)
(* C30: on a BlockingUart created without a TX pad, write, write_all,      *)
(* flush and write_ready fail with UartError::NotFoundTx and touch no UART *)
(* register; on one created without an RX pad, read and read_ready fail    *)
(* with UartError::NotFoundRx.                                             *)
(***************************************************************************)
TxCalls == {"write", "write_all", "flush", "write_ready"}

RxCalls == {"read", "read_ready"}

FailsUntouched(error) ==
    /\ uart.result.kind = "Err"
    /\ uart.result.err = error
    /\ uart.read = {}
    /\ uart.written = {}

C30_MissingHalfNamesItself ==
    pc = "uart" =>
        /\ (uart.op \in TxCalls /\ ~uart.tx) => FailsUntouched("NotFoundTx")
        /\ (uart.op \in RxCalls /\ ~uart.rx) => FailsUntouched("NotFoundRx")

\* what the code does: a call on the missing half fails without touching a
\* register, and the error is NotFoundRx for the transmit half as well
C30_MissingHalfReportsNotFoundRx ==
    pc = "uart" =>
        /\ (uart.op \in TxCalls /\ ~uart.tx) => FailsUntouched("NotFoundRx")
        /\ (uart.op \in RxCalls /\ ~uart.rx) => FailsUntouched("NotFoundRx")

\* write on a UART that has an RX pad and no TX pad answers NotFoundRx
C30_Witness ==
    /\ pc = "uart"
    /\ uart.made
    /\ ~uart.tx
    /\ uart.rx
    /\ uart.op = "write"
    /\ uart.result = Err("NotFoundRx")
    /\ uart.read = {}
    /\ uart.written = {}

====
